---- MODULE Spec2Model ----
(***************************************************************************)
(* Verification model of the event bus of saylorsolutions/x:               *)
(*   - syncx.future            (resolve-once future with a cached result)  *)
(*   - queue.Queue             (priority-insert ordered queue)             *)
(*   - queue.ChannelQueue      (mediator goroutine between two channels)   *)
(*   - eventbus.EventBus       (registration table, workers, dispatch)     *)
(* Go channels are modelled by their buffer, their queue of parked senders *)
(* and their closed flag; goroutines by a program counter each.            *)
(***************************************************************************)
EXTENDS Integers, Sequences, FiniteSets, TLC

(***************************************************************************)
(* Bounds of the model.                                                    *)
(***************************************************************************)
NumResolvers == 2   \* goroutines calling Resolve on the one future
NumAwaiters == 2    \* goroutines calling Await on the one future

NumPushers == 2     \* goroutines calling Push/PushRanked (or Dispatch)
MaxChanSize == 1    \* largest ChannelSize option tried for the ChannelQueue
MaxPriority == 1    \* largest priority handed to PushRanked

MaxWorkers == 2     \* largest NumWorkers option tried for the EventBus
MaxPushes == 4      \* Push/PushRanked calls made on a Queue used on its own
MaxWrites == 1      \* registration-table writes made while the bus runs
NumStarters == 2    \* goroutines calling EventBus.Start
MaxSetupWrites == 3 \* registration calls made on a bus that is not started
MaxTimeouts == 2    \* timed-out Await calls of one goroutine that are counted
NumInitCallers == 2 \* goroutines calling InitInstance or Instance
MaxOpts == 2        \* options handed to one NewEventBus call
MaxOptValue == 2    \* largest size handed to OptBufferSize / OptNumWorkers
MaxParams == 2      \* longest parameter list handed to a ParamSpec validator
MaxAssertions == 2  \* longest list of assertions handed to ParamSpec
MaxMinParams == 3   \* largest minParams handed to ParamSpec
MaxAlternatives == 2 \* longest list of assertions handed to AnyPass

Resolvers == 1..NumResolvers
Awaiters == 1..NumAwaiters
Starters == 1..NumStarters
FutVals == {1, 2}               \* non-zero values handed to Resolve
FutErrs == {"nil", "boom"}      \* errors handed to ResolveErr
ZeroVal == 0                    \* the zero value of the future's type
NoLen == -1                     \* Len() has not been called

VARIABLES
    \* ---- syncx.future ----
    fch,        \* future.ch: buffer of the 1-buffered channel
    fchClosed,  \* future.ch has been closed
    fOnce,      \* future.resolve (sync.Once): "new", "running", "done"
    cacheVal,   \* future.cacheVal
    cacheErr,   \* future.cacheErr
    cacheSet,   \* future.cacheSet (sync.WaitGroup counter)
    rpc,        \* per resolver: position inside ResolveErr
    rarg,       \* per resolver: the (val, err) pair it passed
    apc,        \* per awaiter: position inside await
    atimed,     \* per awaiter: the current Await call carries a timeout
    aret,       \* per awaiter: what its last Await returned
    firstArg,   \* the pair passed by the call that entered the once-guard first
    fpanic,     \* a goroutine panicked on the future's channel
    aearly      \* per awaiter: its Awaits that timed out before any Resolve call

VARIABLES
    \* ---- queue.Queue / queue.ChannelQueue ----
    values,        \* Queue.values: sequence of queueElement
    chanSize,      \* channelQueueConfig.channelSize
    recvBuf,       \* ChannelQueue.recv: the channel's buffer
    recvQ,         \* ChannelQueue.recv: senders parked on the channel
    recvClosed,    \* ChannelQueue.recv: the channel has been closed
    recvNil,       \* the field q.recv has been set to nil
    dispBuf,       \* ChannelQueue.disp (= C): the channel's buffer
    dispClosed,    \* ChannelQueue.disp has been closed
    ctxDone,       \* ChannelQueue.ctx is cancelled
    stoppedClosed, \* ChannelQueue.stopped has been closed
    mpc,           \* position of the mediator goroutine (ChannelQueue.worker)
    stopping,      \* worker's local: stopping
    head,          \* worker's locals: head / haveHead
    ppc,           \* per pusher: position inside PushRanked
    pelem,         \* per pusher: the queueElement it sends
    cpc,           \* position of the goroutine ranging over C
    delivered,     \* the values that goroutine received, in order
    doneAtStop,    \* pushers whose Push had returned when the context was cancelled
    flightAtStop,  \* pushers that were between their check and their return then
    unpopped,      \* the head the mediator put back when it saw the cancellation
    recvOrder      \* the values the mediator received from q.recv, in order

qvars == <<values, chanSize, recvBuf, recvQ, recvClosed, recvNil, dispBuf,
           dispClosed, ctxDone, stoppedClosed, mpc, stopping, head, ppc, pelem,
           cpc, delivered, doneAtStop, flightAtStop, unpopped, recvOrder>>

VARIABLES
    \* ---- eventbus.EventBus ----
    numWorkers,    \* busConf.numWorkers
    startCtxDone,  \* the context given to Start is cancelled
    handlers,      \* EventBus.handlers: the registered handler ids
    handledEvents, \* EventBus.handledEvents: event -> set of handler ids
    rlock,         \* EventBus.mux: number of holders of the read lock
    stopCount,     \* per handler id: calls of its Stop()
    nwrites,       \* registration-table writes made so far
    dpc,           \* per dispatcher: position inside Dispatch/DispatchResult
    devent,        \* per dispatcher: busDispatch.event of its record
    dlate,         \* per dispatcher: its call was made after Stop had returned
    hobj,          \* b.handlers: the handler object bound to each id ("none": no key)
    whandler,      \* per worker: handler := b.handlers[id] of its last HandleEvent call
    fut,           \* per dispatcher: busDispatch.future of its record
    nres,          \* per dispatcher: Resolve calls that took effect on its future
    wpc,           \* per worker: position inside EventBus.start
    wrec,          \* per worker: the dispatch it received
    wvisited,      \* per worker: handler ids its range loop has passed
    werrs,         \* per worker: errs
    wctx,          \* per worker: ctxCh is still non-nil
    wsnap,         \* per worker: the table as it was at the handler lookup
    consumedBy,    \* per record: the workers that received it
    routed,        \* per record: the handler set found at the lookup
    invoked,       \* per record: the handler ids invoked for it
    failed,        \* per record: the handlers that returned an error, in order
    flushed,       \* per record: its errors went through an error flush
    flushedTo,     \* per record: the error subscribers bound at that flush
    deliveredTo,   \* per record: <<failing handler, subscriber>> deliveries
    hpush,         \* per worker: Dispatch calls left in the running handler
    dispatched,    \* scenario D: the test's counter dispatched
    handled        \* scenario D: the test's counter handled

VARIABLES
    \* ---- queue.Queue used on its own, and the caller of EventBus.Await ----
    pushed,        \* number of Push/PushRanked calls made on the Queue
    popped,        \* the elements Pop returned since the last push
    bawait,        \* position of the goroutine inside AwaitStop/Await
    timedOut       \* the timeout handed to Await has elapsed

VARIABLES
    \* ---- the goroutines calling EventBus.Start ----
    startOnce,     \* b.dispatchLoop (sync.Once): "new", "running" or "done"
    spc,           \* per caller: its position inside Start
    nqueues,       \* number of NewChannelQueue calls made by Start
    nspawned       \* number of go b.start(...) statements executed

VARIABLES
    \* ---- the goroutine calling ChannelQueue.AwaitStop, Len and Pop ----
    tpc,           \* its position
    tlen,          \* what Len() returned to it
    tpop           \* what Pop() reported to it

VARIABLES
    \* ---- the global instance and the goroutines calling InitInstance / Instance ----
    initOnce,      \* initOnce (sync.Once): "new", "running" or "done"
    instanceBus,   \* the conf of instanceBus, NoConf while instanceBus is nil
    ipc,           \* per caller: its position
    ikind,         \* per caller: "InitInstance" or "Instance"
    iargs,         \* per caller: the options it passed
    iopts,         \* per caller: the options NewEventBus has still to apply
    iconf,         \* per caller: conf inside its NewEventBus call
    iret           \* per caller: what its call returned

VARIABLES
    \* ---- one call of the function ParamSpec returns ----
    minParams,     \* ParamSpec's minParams
    assertions,    \* ParamSpec's assertions
    params,        \* the validator's params
    vpc,           \* position inside the validator
    vi,            \* the loop variable i
    verrs,         \* the validator's errs, and what it returns
    vran,          \* the positions whose assertion was called
    verrpos,       \* the positions of the errors in errs, in order
    vtargets       \* per position: the target of its AssertAndStore was written

VARIABLES
    \* ---- one call of a ParamAssertion ----
    asn,           \* the assertion
    asnParam,      \* the Param it is called on
    asnPc,         \* "call", "returned" or "panicked"
    asnErr,        \* the errors joined in the error it returned (none: nil)
    asnRan,        \* the alternatives that were called, in order
    asnStored      \* per target variable: the value it holds

VARIABLES
    \* ---- a handler that awaits the future of its own DispatchResult ----
    hawait,        \* per worker: the Await call of its handler
    hval           \* per worker: what that Await call returned

VARIABLES
    \* ---- the last call of a write operation of the bus ----
    wcall,         \* <<operation, handler id, event>> of the call
    wret           \* the error it returned

ovars == <<pushed, popped>>
avars == <<bawait, timedOut>>
svars == <<startOnce, spc, nqueues, nspawned>>
\* the groups that stay as they are while a Queue or Await is under study
tvars == <<tpc, tlen, tpop>>
ivars == <<initOnce, instanceBus, ipc, ikind, iargs, iopts, iconf, iret>>
pvars == <<minParams, assertions, params, vpc, vi, verrs, vran, verrpos, vtargets>>
nvars == <<asn, asnParam, asnPc, asnErr, asnRan, asnStored>>
\* the groups added for the assertions
hvars == <<hawait, hval>>
wcvars == <<wcall, wret>>
lvars == <<nvars, hvars, wcvars>>
zvars == <<svars, tvars, ivars, pvars, lvars>>
xExceptOrdered == <<avars, zvars>>
xExceptAwait == <<ovars, zvars>>
xvars == <<ovars, avars, zvars>>

bvars == <<numWorkers, startCtxDone, handlers, handledEvents, rlock,
           stopCount, nwrites, hobj, whandler, dpc, devent, dlate, fut, nres, wpc, wrec, wvisited,
           werrs, wctx, wsnap, consumedBy, routed, invoked, failed, flushed, flushedTo,
           deliveredTo, hpush, dispatched, handled>>

fvars == <<fch, fchClosed, fOnce, cacheVal, cacheErr, cacheSet, rpc, rarg,
           apc, atimed, aret, firstArg, fpanic, aearly>>

vars == <<fvars, qvars, bvars, xvars>>

\* no Queue is used on its own
OrderedUnused ==
    /\ pushed = 0
    /\ popped = <<>>

\* no goroutine calls Start while the behaviour is observed
StartUnused ==
    /\ startOnce = "off"
    /\ spc = [c \in Starters |-> "off"]
    /\ nqueues = 0
    /\ nspawned = 0

\* no goroutine calls AwaitStop on the ChannelQueue
AwaitStopUnused ==
    /\ tpc = "off"
    /\ tlen = NoLen
    /\ tpop = "unset"

\* busConf, and the value that stands for no conf at all
Conf(b, n) == [bufferSize |-> b, numWorkers |-> n]
NoConf == Conf(0, 0)

InitCallers == 1..NumInitCallers

\* no goroutine calls InitInstance or Instance
InstanceUnused ==
    /\ initOnce = "off"
    /\ instanceBus = NoConf
    /\ ipc = [c \in InitCallers |-> "off"]
    /\ ikind = [c \in InitCallers |-> "none"]
    /\ iargs = [c \in InitCallers |-> <<>>]
    /\ iopts = [c \in InitCallers |-> <<>>]
    /\ iconf = [c \in InitCallers |-> NoConf]
    /\ iret = [c \in InitCallers |-> "none"]

ParamPositions == 1..MaxAssertions

\* no validator built by ParamSpec is called
ParamSpecUnused ==
    /\ minParams = 0
    /\ assertions = <<>>
    /\ params = <<>>
    /\ vpc = "off"
    /\ vi = 0
    /\ verrs = <<>>
    /\ vran = {}
    /\ verrpos = <<>>
    /\ vtargets = [i \in ParamPositions |-> FALSE]

\* the variables an AssertAndStore can point to: a is a string, b an int
TargetVars == {"a", "b"}
\* a leaf assertion and a composed one
Leaf(k, t, tgt) == [k |-> k, t |-> t, tgt |-> tgt, alts |-> <<>>]
NoAssertion == Leaf("none", "none", "none")

\* no ParamAssertion is called on its own
AssertionUnused ==
    /\ asn = NoAssertion
    /\ asnParam = "nil"
    /\ asnPc = "off"
    /\ asnErr = <<>>
    /\ asnRan = <<>>
    /\ asnStored = [v \in TargetVars |-> "zero"]

\* no handler awaits a future
HandlerAwaitUnused ==
    /\ hawait = [w \in 1..MaxWorkers |-> "none"]
    /\ hval = [w \in 1..MaxWorkers |-> "none"]

\* no write operation has been called by a caller under study
NoCall == <<"none", "none", 0>>
WriteCallUnused == wcall = NoCall /\ wret = "none"

LaterUnused == AssertionUnused /\ HandlerAwaitUnused /\ WriteCallUnused

OtherUnused ==
    StartUnused /\ AwaitStopUnused /\ InstanceUnused /\ ParamSpecUnused /\ LaterUnused

\* no Queue is used on its own and no goroutine has called Await
ExtraUnused ==
    /\ OrderedUnused
    /\ bawait = "off"
    /\ timedOut = FALSE
    /\ OtherUnused

NoPair == [val |-> ZeroVal, err |-> "none"]
Pair(v, e) == [val |-> v, err |-> e]
\* var zero T; return zero, ctx.Err()
TimeoutPairMutantNoErr == [val |-> ZeroVal, err |-> "nil"]

TimeoutPair == [val |-> ZeroVal, err |-> "deadline"]
\* what an Await call returned, and by which branch of the select
Ret(pair, via) == [pair |-> pair, via |-> via]
NoRet == Ret(NoPair, "none")

(***************************************************************************)
(* syncx.NewFuture / NewFutureErr                                          *)
(***************************************************************************)
NewFuture ==
    /\ fch = <<>>
    /\ fchClosed = FALSE
    /\ fOnce = "new"
    /\ cacheVal = ZeroVal
    /\ cacheErr = "nil"
    /\ cacheSet = 1
    /\ rpc = [r \in Resolvers |-> "idle"]
    /\ rarg = [r \in Resolvers |-> NoPair]
    /\ apc = [a \in Awaiters |-> "idle"]
    /\ atimed = [a \in Awaiters |-> FALSE]
    /\ aret = [a \in Awaiters |-> NoRet]
    /\ firstArg = NoPair
    /\ fpanic = FALSE
    /\ aearly = [a \in Awaiters |-> 0]

\* the future's operations leave the queue and the bus alone
FutureFrame == UNCHANGED <<qvars, bvars, xvars>>

\* sync.Once.Do as used by ResolveErr: may this caller run the function?
OnceMutantNoGuard(state) == TRUE
OnceFree(state) == state = "new"

\* future.ResolveErr, entry: f.resolve.Do(...). The first caller runs the body,
\* a caller arriving while the body runs waits for it, a later caller returns.
ResolveErr_enter(r) ==
    /\ FutureFrame
    /\ UNCHANGED aearly
    /\ rpc[r] = "idle"
    /\ \E v \in FutVals, e \in FutErrs :
        /\ rarg' = [rarg EXCEPT ![r] = Pair(v, e)]
        /\ IF OnceFree(fOnce)
           THEN /\ fOnce' = "running"
                /\ rpc' = [rpc EXCEPT ![r] = "send"]
                /\ firstArg' = IF firstArg = NoPair THEN Pair(v, e) ELSE firstArg
           ELSE /\ fOnce' = fOnce
                /\ rpc' = [rpc EXCEPT ![r] = "onceWait"]
                /\ firstArg' = firstArg
    /\ UNCHANGED <<fch, fchClosed, cacheVal, cacheErr, cacheSet, apc, atimed,
                   aret, fpanic>>

\* a caller that lost the once-guard returns when the winner's body is done
ResolveErr_noop(r) ==
    /\ FutureFrame
    /\ UNCHANGED aearly
    /\ rpc[r] = "onceWait"
    /\ fOnce = "done"
    /\ rpc' = [rpc EXCEPT ![r] = "returned"]
    /\ UNCHANGED <<fch, fchClosed, fOnce, cacheVal, cacheErr, cacheSet, rarg,
                   apc, atimed, aret, firstArg, fpanic>>

\* f.ch <- &resultPair{val, err}   (capacity 1; a send on a closed channel panics)
ResolveErr_send(r) ==
    /\ FutureFrame
    /\ UNCHANGED aearly
    /\ rpc[r] = "send"
    /\ IF fchClosed
       THEN /\ fpanic' = TRUE
            /\ rpc' = [rpc EXCEPT ![r] = "panicked"]
            /\ fch' = fch
       ELSE /\ Len(fch) < 1
            /\ fch' = Append(fch, rarg[r])
            /\ rpc' = [rpc EXCEPT ![r] = "close"]
            /\ fpanic' = fpanic
    /\ UNCHANGED <<fchClosed, fOnce, cacheVal, cacheErr, cacheSet, rarg, apc,
                   atimed, aret, firstArg>>

\* close(f.ch)   (closing a closed channel panics)
ResolveErr_close(r) ==
    /\ FutureFrame
    /\ UNCHANGED aearly
    /\ rpc[r] = "close"
    /\ IF fchClosed
       THEN /\ fpanic' = TRUE
            /\ rpc' = [rpc EXCEPT ![r] = "panicked"]
            /\ fchClosed' = fchClosed
       ELSE /\ fchClosed' = TRUE
            /\ rpc' = [rpc EXCEPT ![r] = "cache"]
            /\ fpanic' = fpanic
    /\ UNCHANGED <<fch, fOnce, cacheVal, cacheErr, cacheSet, rarg, apc, atimed,
                   aret, firstArg>>

\* the value the resolver stores in the cache
CachedPair(pair) == pair

\* f.cacheVal = val; f.cacheErr = err
ResolveErr_cache(r) ==
    /\ FutureFrame
    /\ UNCHANGED aearly
    /\ rpc[r] = "cache"
    /\ cacheVal' = CachedPair(rarg[r]).val
    /\ cacheErr' = CachedPair(rarg[r]).err
    /\ rpc' = [rpc EXCEPT ![r] = "done"]
    /\ UNCHANGED <<fch, fchClosed, fOnce, cacheSet, rarg, apc, atimed,
                   aret, firstArg, fpanic>>

\* f.cacheSet.Done(), and the once-guard's function returns
ResolveErr_done(r) ==
    /\ FutureFrame
    /\ UNCHANGED aearly
    /\ rpc[r] = "done"
    /\ cacheSet' = cacheSet - 1
    /\ fOnce' = "done"
    /\ rpc' = [rpc EXCEPT ![r] = "returned"]
    /\ UNCHANGED <<fch, fchClosed, cacheVal, cacheErr, rarg, apc, atimed,
                   aret, firstArg, fpanic>>

\* future.AwaitErr: builds the context (with a deadline iff a timeout is given)
AwaitErr(a) ==
    /\ FutureFrame
    /\ UNCHANGED aearly
    /\ apc[a] \in {"idle", "returned"}
    /\ \E t \in BOOLEAN : atimed' = [atimed EXCEPT ![a] = t]
    /\ apc' = [apc EXCEPT ![a] = "select"]
    /\ aret' = [aret EXCEPT ![a] = NoRet]
    /\ UNCHANGED <<fch, fchClosed, fOnce, cacheVal, cacheErr, cacheSet, rpc,
                   rarg, firstArg, fpanic>>

\* future.await, case pair, more := <-f.ch
await_recv(a) ==
    /\ FutureFrame
    /\ UNCHANGED aearly
    /\ apc[a] = "select"
    /\ \/ /\ fch # <<>>
          /\ fch' = Tail(fch)
          /\ aret' = [aret EXCEPT ![a] = Ret(Head(fch), "chan")]
          /\ apc' = [apc EXCEPT ![a] = "returned"]
       \/ /\ fch = <<>>
          /\ fchClosed
          /\ apc' = [apc EXCEPT ![a] = "wait"]
          /\ UNCHANGED <<fch, aret>>
    /\ atimed' = [atimed EXCEPT ![a] = FALSE]
    /\ UNCHANGED <<fchClosed, fOnce, cacheVal, cacheErr, cacheSet, rpc, rarg,
                   firstArg, fpanic>>

\* the count of timed-out Awaits, kept for the calls that ended before any
\* Resolve call had entered the once-guard
CountEarly(n, first) ==
    IF first = NoPair /\ n < MaxTimeouts THEN n + 1 ELSE n

\* future.await, case <-ctx.Done(): the zero value and the context's error
await_timeout(a) ==
    /\ FutureFrame
    /\ apc[a] = "select"
    /\ atimed[a]
    /\ aret' = [aret EXCEPT ![a] = Ret(TimeoutPair, "timeout")]
    /\ apc' = [apc EXCEPT ![a] = "returned"]
    /\ atimed' = [atimed EXCEPT ![a] = FALSE]
    /\ aearly' = [aearly EXCEPT ![a] = CountEarly(@, firstArg)]
    /\ UNCHANGED <<fch, fchClosed, fOnce, cacheVal, cacheErr, cacheSet, rpc,
                   rarg, firstArg, fpanic>>

\* sync.WaitGroup.Wait as used by await: may the reader pass the barrier?
BarrierMutantOpen(n) == TRUE
BarrierOpen(n) == n = 0

\* future.await, !more: f.cacheSet.Wait(); return f.cacheVal, f.cacheErr
await_cached(a) ==
    /\ FutureFrame
    /\ UNCHANGED aearly
    /\ apc[a] = "wait"
    /\ BarrierOpen(cacheSet)
    /\ aret' = [aret EXCEPT ![a] = Ret(Pair(cacheVal, cacheErr), "cache")]
    /\ apc' = [apc EXCEPT ![a] = "returned"]
    /\ UNCHANGED <<fch, fchClosed, fOnce, cacheVal, cacheErr, cacheSet, rpc,
                   rarg, atimed, firstArg, fpanic>>


(***************************************************************************)
(* queue.Queue: the ordered list under the ChannelQueue                    *)
(***************************************************************************)
Pushers == 1..NumPushers
Workers == 1..MaxWorkers
\* a bus worker pushes (a handler calling Dispatch) under an id of its own
WorkerPusher(w) == NumPushers + w
AllPushers == 1..(NumPushers + MaxWorkers)
Priorities == 0..MaxPriority
Elem(v, prio) == [val |-> v, priority |-> prio]
NoElem == [val |-> 0, priority |-> 0]

\* the first index whose element has a strictly lower priority, 0 if none
\* the comparison of the insertion scan: el.priority < priority
LowerMutantOrEqual(a, b) == a <= b
Lower(a, b) == a < b

RECURSIVE FirstLower(_, _, _)
FirstLower(vs, prio, i) ==
    IF i > Len(vs) THEN 0
    ELSE IF Lower(vs[i].priority, prio) THEN i
    ELSE FirstLower(vs, prio, i + 1)

InsertAt(vs, pos, el) == SubSeq(vs, 1, pos - 1) \o <<el>> \o SubSeq(vs, pos, Len(vs))

\* Queue.PushRanked
Queue_PushRanked(vs, el) ==
    IF el.priority = 0 THEN Append(vs, Elem(el.val, 0))
    ELSE LET pos == FirstLower(vs, el.priority, 1)
         IN IF pos = 0 THEN Append(vs, el) ELSE InsertAt(vs, pos, el)

\* Queue.pushHead
Queue_pushHeadMutantTail(vs, el) == Append(vs, el)

Queue_pushHead(vs, el) == <<el>> \o vs

(***************************************************************************)
(* eventbus.EventBus: values and the state of an unused bus                *)
(***************************************************************************)
EventNone == 0          \* reserved event: no event
EventAsyncError == 1    \* reserved event: carries processing errors
FirstEvent == 2         \* a user event
SecondEvent == 3        \* a second user event
Events == {EventAsyncError, FirstEvent, SecondEvent}
\* the events the registration calls and DispatchResult are tried with
RegEvents == {EventAsyncError, FirstEvent}
HandlerIDs == {"h1", "h2"}
\* the handler objects handed to Register
HandlerObjs == {"A", "B"}
FirstObj == "A"
FirstHandler == "h1"    \* "first-handler" of the high-volume scenario
SecondHandler == "h2"   \* "second-handler" of the high-volume scenario
NoSnap == <<>>
NoRec == 0

\* NewEventBus(OptNumWorkers(n)): empty registration table, nothing started
NewEventBus(n) ==
    /\ numWorkers = n
    /\ startCtxDone = FALSE
    /\ handlers = {}
    /\ handledEvents = [e \in Events |-> {}]
    /\ hobj = [id \in HandlerIDs |-> "none"]
    /\ rlock = 0
    /\ stopCount = [id \in HandlerIDs |-> 0]
    /\ nwrites = 0

\* no dispatch has been made and no worker goroutine runs
BusIdle ==
    /\ dpc = [d \in Pushers |-> "off"]
    /\ devent = [d \in Pushers |-> EventNone]
    /\ dlate = [d \in Pushers |-> FALSE]
    /\ fut = [v \in AllPushers |-> "none"]
    /\ nres = [v \in AllPushers |-> 0]
    /\ wpc = [w \in Workers |-> "off"]
    /\ wrec = [w \in Workers |-> NoRec]
    /\ wvisited = [w \in Workers |-> {}]
    /\ whandler = [w \in Workers |-> "none"]
    /\ werrs = [w \in Workers |-> <<>>]
    /\ wctx = [w \in Workers |-> TRUE]
    /\ wsnap = [w \in Workers |-> NoSnap]
    /\ consumedBy = [v \in AllPushers |-> {}]
    /\ routed = [v \in AllPushers |-> {}]
    /\ invoked = [v \in AllPushers |-> {}]
    /\ failed = [v \in AllPushers |-> <<>>]
    /\ flushed = [v \in AllPushers |-> FALSE]
    /\ flushedTo = [v \in AllPushers |-> {}]
    /\ deliveredTo = [v \in AllPushers |-> {}]
    /\ hpush = [w \in Workers |-> 0]
    /\ dispatched = 0
    /\ handled = 0

\* the bus's part of the state when no EventBus is under study
BusUnused == NewEventBus(1) /\ BusIdle

(***************************************************************************)
(* queue.ChannelQueue                                                      *)
(***************************************************************************)
\* the order of reception is not recorded
NoOrder == <<0>>
\* the order of reception after value v was received
Observed(order, v) == IF order = NoOrder THEN order ELSE Append(order, v)

\* a receive on q.recv can proceed: a buffered value or a parked sender
RecvReady == recvBuf # <<>> \/ recvQ # <<>>

\* the element a receive on q.recv yields
RecvElem == IF recvBuf # <<>> THEN Head(recvBuf) ELSE pelem[Head(recvQ)]

\* the channel after that receive: the first parked sender, if any, completes
\* its send (its element enters the buffer, or was handed over directly)
RecvBufAfter ==
    IF recvBuf # <<>>
    THEN IF recvQ # <<>> THEN Append(Tail(recvBuf), pelem[Head(recvQ)]) ELSE Tail(recvBuf)
    ELSE recvBuf
RecvReceive ==
    /\ recvBuf' = RecvBufAfter
    /\ recvQ' = IF recvQ # <<>> THEN Tail(recvQ) ELSE recvQ
    /\ ppc' = IF recvQ # <<>> THEN [ppc EXCEPT ![Head(recvQ)] = "done"] ELSE ppc

\* a goroutine is blocked in a receive on C (for val := range cq.C)
ConsumerReady == cpc = "recv"

\* a send on q.disp can proceed: room in the buffer, or (unbuffered) a receiver
DispCanSend ==
    \/ Len(dispBuf) < chanSize
    \/ chanSize = 0 /\ ConsumerReady

\* q.disp <- v
DispSend(v) ==
    IF Len(dispBuf) < chanSize
    THEN /\ dispBuf' = Append(dispBuf, v)
         /\ delivered' = delivered
    ELSE /\ dispBuf' = dispBuf
         /\ delivered' = Append(delivered, v)

\* NewChannelQueue: empty queue, both channels of the configured size, the
\* mediator goroutine started
NewChannelQueue(size) ==
    /\ values = <<>>
    /\ chanSize = size
    /\ recvBuf = <<>>
    /\ recvQ = <<>>
    /\ recvClosed = FALSE
    /\ recvNil = FALSE
    /\ dispBuf = <<>>
    /\ dispClosed = FALSE
    /\ ctxDone = FALSE
    /\ stoppedClosed = FALSE
    /\ mpc = "loop"
    /\ stopping = FALSE
    /\ head = NoElem
    /\ pelem = [p \in AllPushers |-> NoElem]
    /\ delivered = <<>>
    /\ doneAtStop = {}
    /\ flightAtStop = {}
    /\ unpopped = NoElem

\* the queue's part of the state when no ChannelQueue is under study
QueueUnused ==
    /\ NewChannelQueue(0)
    /\ recvOrder = NoOrder
    /\ ppc = [p \in AllPushers |-> "off"]
    /\ cpc = "off"

\* the ChannelQueue's operations leave the future alone
QueueFrame == UNCHANGED <<fvars, bvars, xvars>>

\* worker, loop head while running: head, haveHead = q.queue.pop()
worker_pop ==
    /\ mpc = "loop"
    /\ ~stopping
    /\ IF values = <<>>
       THEN head' = NoElem /\ values' = values
       ELSE head' = Head(values) /\ values' = Tail(values)
    /\ mpc' = "select"
    /\ UNCHANGED <<chanSize, recvBuf, recvQ, recvClosed, recvNil, dispBuf,
                   dispClosed, ctxDone, stoppedClosed, stopping, ppc, pelem,
                   cpc, delivered, doneAtStop, flightAtStop, unpopped, recvOrder>>
    /\ QueueFrame

\* worker, loop head once stopping: enter the drain loop
worker_stopping ==
    /\ mpc = "loop"
    /\ stopping
    /\ mpc' = "drain"
    /\ UNCHANGED <<values, chanSize, recvBuf, recvQ, recvClosed, recvNil,
                   dispBuf, dispClosed, ctxDone, stoppedClosed, stopping, head,
                   ppc, pelem, cpc, delivered, doneAtStop, flightAtStop, unpopped, recvOrder>>
    /\ QueueFrame

\* the running select offers case _new := <-q.recv in both branches of the
\* switch: with a head in hand and without
RecvCaseMutantIdleOnly(h) == h = NoElem
RecvCase(h) == TRUE

\* worker, running, case _new := <-q.recv (with or without a head in hand)
worker_recv ==
    /\ mpc = "select"
    /\ RecvCase(head)
    /\ RecvReady
    /\ values' = Queue_PushRanked(
                    IF head # NoElem THEN Queue_pushHead(values, head) ELSE values,
                    RecvElem)
    /\ RecvReceive
    /\ recvOrder' = Observed(recvOrder, RecvElem.val)
    /\ head' = NoElem
    /\ mpc' = "loop"
    /\ UNCHANGED <<chanSize, recvClosed, recvNil, dispBuf, dispClosed, ctxDone,
                   stoppedClosed, stopping, pelem, cpc, delivered, doneAtStop,
                   flightAtStop, unpopped>>
    /\ QueueFrame

\* worker, running with a head, case q.disp <- head.val
worker_disp ==
    /\ mpc = "select"
    /\ head # NoElem
    /\ DispCanSend
    /\ DispSend(head.val)
    /\ head' = NoElem
    /\ mpc' = "loop"
    /\ UNCHANGED <<values, chanSize, recvBuf, recvQ, recvClosed, recvNil,
                   dispClosed, ctxDone, stoppedClosed, stopping, ppc, pelem,
                   cpc, doneAtStop, flightAtStop, unpopped, recvOrder>>
    /\ QueueFrame

\* the queue after the mediator saw the cancellation with a head in hand
HeadBackMutantDrop(vs, el) == vs
HeadBack(vs, el) == IF el # NoElem THEN Queue_pushHead(vs, el) ELSE vs

\* worker, running, case <-q.ctx.Done(): un-pop the head, stopping = true, q.Stop()
worker_ctxDone ==
    /\ mpc = "select"
    /\ ctxDone
    /\ values' = HeadBack(values, head)
    /\ head' = NoElem
    /\ stopping' = TRUE
    /\ unpopped' = head
    /\ mpc' = "loop"
    /\ UNCHANGED <<chanSize, recvBuf, recvQ, recvClosed, recvNil, dispBuf,
                   dispClosed, ctxDone, stoppedClosed, ppc, pelem, cpc,
                   delivered, doneAtStop, flightAtStop, recvOrder>>
    /\ QueueFrame

\* worker, stopping, case _new := <-q.recv of the non-blocking select
worker_drainRecv ==
    /\ mpc = "drain"
    /\ RecvReady
    /\ values' = Queue_PushRanked(values, RecvElem)
    /\ RecvReceive
    /\ recvOrder' = Observed(recvOrder, RecvElem.val)
    /\ UNCHANGED <<chanSize, recvClosed, recvNil, dispBuf, dispClosed, ctxDone,
                   stoppedClosed, mpc, stopping, head, pelem, cpc, delivered,
                   doneAtStop, flightAtStop, unpopped>>
    /\ QueueFrame

\* worker, stopping, default of the non-blocking select: nothing to receive
worker_drainDefault ==
    /\ mpc = "drain"
    /\ ~RecvReady
    /\ mpc' = "nilRecv"
    /\ UNCHANGED <<values, chanSize, recvBuf, recvQ, recvClosed, recvNil,
                   dispBuf, dispClosed, ctxDone, stoppedClosed, stopping, head,
                   ppc, pelem, cpc, delivered, doneAtStop, flightAtStop, unpopped, recvOrder>>
    /\ QueueFrame

\* worker, stopping: recv := q.recv; q.recv = nil
worker_nilRecv ==
    /\ mpc = "nilRecv"
    /\ recvNil' = TRUE
    /\ mpc' = "closeRecv"
    /\ UNCHANGED <<values, chanSize, recvBuf, recvQ, recvClosed, dispBuf,
                   dispClosed, ctxDone, stoppedClosed, stopping, head, ppc,
                   pelem, cpc, delivered, doneAtStop, flightAtStop, unpopped, recvOrder>>
    /\ QueueFrame

\* worker, stopping: close(recv); the senders parked on the channel panic
worker_closeRecv ==
    /\ mpc = "closeRecv"
    /\ recvClosed' = TRUE
    /\ ppc' = [p \in AllPushers |->
                 IF \E i \in 1..Len(recvQ) : recvQ[i] = p THEN "panicked" ELSE ppc[p]]
    /\ recvQ' = <<>>
    /\ mpc' = "iter"
    /\ UNCHANGED <<values, chanSize, recvBuf, recvNil, dispBuf, dispClosed,
                   ctxDone, stoppedClosed, stopping, head, pelem, cpc,
                   delivered, doneAtStop, flightAtStop, unpopped, recvOrder>>
    /\ QueueFrame

\* worker, stopping: the iterator pops the next value, or ends
worker_iterPop ==
    /\ mpc = "iter"
    /\ IF values = <<>>
       THEN /\ mpc' = "closeDisp"
            /\ UNCHANGED <<values, head>>
       ELSE /\ head' = Head(values)
            /\ values' = Tail(values)
            /\ mpc' = "iterSend"
    /\ UNCHANGED <<chanSize, recvBuf, recvQ, recvClosed, recvNil, dispBuf,
                   dispClosed, ctxDone, stoppedClosed, stopping, ppc, pelem,
                   cpc, delivered, doneAtStop, flightAtStop, unpopped, recvOrder>>
    /\ QueueFrame

\* worker, stopping: q.disp <- val (blocking)
worker_iterSend ==
    /\ mpc = "iterSend"
    /\ DispCanSend
    /\ DispSend(head.val)
    /\ head' = NoElem
    /\ mpc' = "iter"
    /\ UNCHANGED <<values, chanSize, recvBuf, recvQ, recvClosed, recvNil,
                   dispClosed, ctxDone, stoppedClosed, stopping, ppc, pelem,
                   cpc, doneAtStop, flightAtStop, unpopped, recvOrder>>
    /\ QueueFrame

\* worker, deferred: close(q.disp)
worker_closeDisp ==
    /\ mpc = "closeDisp"
    /\ dispClosed' = TRUE
    /\ mpc' = "closeStopped"
    /\ UNCHANGED <<values, chanSize, recvBuf, recvQ, recvClosed, recvNil,
                   dispBuf, ctxDone, stoppedClosed, stopping, head, ppc, pelem,
                   cpc, delivered, doneAtStop, flightAtStop, unpopped, recvOrder>>
    /\ QueueFrame

\* worker, deferred: close(q.stopped)
worker_closeStopped ==
    /\ mpc = "closeStopped"
    /\ stoppedClosed' = TRUE
    /\ mpc' = "exited"
    /\ UNCHANGED <<values, chanSize, recvBuf, recvQ, recvClosed, recvNil,
                   dispBuf, dispClosed, ctxDone, stopping, head, ppc, pelem,
                   cpc, delivered, doneAtStop, flightAtStop, unpopped, recvOrder>>
    /\ QueueFrame

\* the pushers between the check of PushRanked and its return
InFlight == {p \in AllPushers : ppc[p] \in {"send", "parked"}}

\* ChannelQueue.Stop (q.doStop.Do(q.stop)), or the cancellation of the context
\* given to NewChannelQueue: q.ctx is done from now on
ChannelQueue_Stop ==
    /\ ~ctxDone
    /\ ctxDone' = TRUE
    /\ doneAtStop' = {p \in AllPushers : ppc[p] = "done"}
    /\ flightAtStop' = InFlight
    /\ UNCHANGED <<values, chanSize, recvBuf, recvQ, recvClosed, recvNil,
                   dispBuf, dispClosed, stoppedClosed, mpc, stopping, head,
                   ppc, pelem, cpc, delivered, unpopped, recvOrder>>
    /\ QueueFrame

\* PushRanked, the select: case <-q.ctx.Done() returns, default goes on to send
PushCheckMutantSkip(done) == FALSE

PushCheck(done) == done

\* ChannelQueue.PushRanked(val, priority), up to the choice of the select
PushRanked_check(p) ==
    /\ ppc[p] = "idle"
    /\ \E prio \in Priorities :
          pelem' = [pelem EXCEPT ![p] = Elem(p, prio)]
    /\ ppc' = [ppc EXCEPT ![p] = IF PushCheck(ctxDone) THEN "rejected" ELSE "send"]
    /\ UNCHANGED <<values, chanSize, recvBuf, recvQ, recvClosed, recvNil,
                   dispBuf, dispClosed, ctxDone, stoppedClosed, mpc, stopping,
                   head, cpc, delivered, doneAtStop, flightAtStop, unpopped, recvOrder>>
    /\ QueueFrame

\* ChannelQueue.PushRanked, default: q.recv <- &queueElement{...}.
\* The read of the field q.recv is not synchronised with the mediator's write of
\* nil: once written, the read yields the channel or nil. A send on a nil
\* channel blocks forever, a send on a closed channel panics, a send on a full
\* (or unbuffered) channel parks the sender.
PushRanked_send(p) ==
    /\ ppc[p] = "send"
    /\ \E seesNil \in (IF recvNil THEN {TRUE, FALSE} ELSE {FALSE}) :
        IF seesNil
        THEN /\ ppc' = [ppc EXCEPT ![p] = "blockedNil"]
             /\ UNCHANGED <<recvBuf, recvQ>>
        ELSE IF recvClosed
        THEN /\ ppc' = [ppc EXCEPT ![p] = "panicked"]
             /\ UNCHANGED <<recvBuf, recvQ>>
        ELSE IF Len(recvBuf) < chanSize
        THEN /\ recvBuf' = Append(recvBuf, pelem[p])
             /\ ppc' = [ppc EXCEPT ![p] = "done"]
             /\ recvQ' = recvQ
        ELSE /\ recvQ' = Append(recvQ, p)
             /\ ppc' = [ppc EXCEPT ![p] = "parked"]
             /\ recvBuf' = recvBuf
    /\ UNCHANGED <<values, chanSize, recvNil, recvClosed, dispBuf, dispClosed,
                   ctxDone, stoppedClosed, mpc, stopping, head, pelem, cpc,
                   delivered, doneAtStop, flightAtStop, unpopped, recvOrder>>
    /\ QueueFrame

\* the goroutine ranging over C: receives the next value, or sees the close
Consumer_recv ==
    /\ cpc = "recv"
    /\ IF dispBuf # <<>>
       THEN /\ delivered' = Append(delivered, Head(dispBuf))
            /\ dispBuf' = Tail(dispBuf)
            /\ cpc' = cpc
       ELSE /\ dispClosed
            /\ cpc' = "closed"
            /\ UNCHANGED <<delivered, dispBuf>>
    /\ UNCHANGED <<values, chanSize, recvBuf, recvQ, recvClosed, recvNil,
                   dispClosed, ctxDone, stoppedClosed, mpc, stopping, head,
                   ppc, pelem, doneAtStop, flightAtStop, unpopped, recvOrder>>
    /\ QueueFrame

InitQueue ==
    /\ NewFuture
    /\ ExtraUnused
    /\ \E size \in 0..MaxChanSize : NewChannelQueue(size)
    /\ recvOrder = NoOrder
    /\ ppc = [p \in AllPushers |-> IF p \in Pushers THEN "idle" ELSE "off"]
    /\ cpc = "recv"
    /\ BusUnused

NextQueue ==
    \/ worker_pop
    \/ worker_stopping
    \/ worker_recv
    \/ worker_disp
    \/ worker_ctxDone
    \/ worker_drainRecv
    \/ worker_drainDefault
    \/ worker_nilRecv
    \/ worker_closeRecv
    \/ worker_iterPop
    \/ worker_iterSend
    \/ worker_closeDisp
    \/ worker_closeStopped
    \/ ChannelQueue_Stop
    \/ \E p \in Pushers : PushRanked_check(p)
    \/ \E p \in Pushers : PushRanked_send(p)
    \/ Consumer_recv

SpecQueue == InitQueue /\ [][NextQueue]_vars

Count(v, seq) == Cardinality({i \in 1..Len(seq) : seq[i] = v})

\* C2: when the output stream has closed and the consumer has received up to
\* the close, every value whose Push had returned before Stop was delivered
\* exactly once (the head the mediator held when the cancellation arrived
\* included), nothing was delivered twice, and if no Push was still running at
\* Stop then exactly N values were delivered, N the number of successful pushes.
C2_ZeroLossShutdown ==
    cpc = "closed" =>
        /\ \A p \in doneAtStop : Count(p, delivered) = 1
        /\ \A p \in Pushers : Count(p, delivered) <= 1
        /\ flightAtStop = {} => Len(delivered) = Cardinality(doneAtStop)

\* C2 witness: two pushes had returned, none was running, the mediator had a
\* popped head in hand when it saw the cancellation, and the stream closed
\* after both values were delivered.
C2_Witness ==
    /\ cpc = "closed"
    /\ Cardinality(doneAtStop) >= 2
    /\ flightAtStop = {}
    /\ unpopped # NoElem
    /\ Len(delivered) = Cardinality(doneAtStop)

\* C3: a push call running concurrently with Stop always returns: it neither
\* sends on the input channel after the mediator closed it (a panic) nor
\* blocks forever on the nil-ed channel field.
C3_PushNeverSendsAfterClose ==
    \A p \in Pushers : ppc[p] \notin {"panicked", "blockedNil"}

InitFuture == NewFuture /\ QueueUnused /\ BusUnused /\ ExtraUnused

NextFuture ==
    \/ \E r \in Resolvers : ResolveErr_enter(r)
    \/ \E r \in Resolvers : ResolveErr_noop(r)
    \/ \E r \in Resolvers : ResolveErr_send(r)
    \/ \E r \in Resolvers : ResolveErr_close(r)
    \/ \E r \in Resolvers : ResolveErr_cache(r)
    \/ \E r \in Resolvers : ResolveErr_done(r)
    \/ \E a \in Awaiters : AwaitErr(a)
    \/ \E a \in Awaiters : await_recv(a)
    \/ \E a \in Awaiters : await_timeout(a)
    \/ \E a \in Awaiters : await_cached(a)

SpecFuture == InitFuture /\ [][NextFuture]_vars

InResolveBody(r) == rpc[r] \in {"send", "close", "cache", "done"}

\* C5: across concurrent Resolve calls only the argument of the first call (the
\* one that wins the once-guard) is ever observable from Await: it is the only
\* pair in the channel, in the cache and in any Await result; every later call
\* is a no-op that changes nothing, raises no panic and waits at most for the
\* winner's body, which itself never blocks on the 1-buffered channel.
C5_FirstResolveWins ==
    /\ ~fpanic
    /\ \A r \in Resolvers : rpc[r] # "panicked"
    /\ Cardinality({r \in Resolvers : InResolveBody(r)}) <= 1
    /\ \A r \in Resolvers : InResolveBody(r) => rarg[r] = firstArg
    /\ \A i \in 1..Len(fch) : fch[i] = firstArg
    /\ fOnce = "done" => Pair(cacheVal, cacheErr) = firstArg
    /\ \A a \in Awaiters : aret[a].via \in {"chan", "cache"} => aret[a].pair = firstArg
    /\ \A r \in Resolvers : rpc[r] = "onceWait" => fOnce \in {"running", "done"}
    /\ \A r \in Resolvers : rpc[r] = "send" => (Len(fch) < 1 /\ ~fchClosed)

\* C5 witness: two Resolve calls with different arguments have both returned
\* and an Await has returned a value.
C5_Witness ==
    /\ \E r1, r2 \in Resolvers :
          /\ r1 # r2
          /\ rpc[r1] = "returned" /\ rpc[r2] = "returned"
          /\ rarg[r1] # rarg[r2]
    /\ \E a \in Awaiters : apc[a] = "returned" /\ aret[a].via \in {"chan", "cache"}

\* C6: every Await that returns without timing out returns the resolved pair v,
\* whether it received it from the single-slot channel or read it from the
\* cache after the channel was drained and closed; and once Resolve has
\* completed no reader can be blocked (the channel is readable or closed, and
\* the cache barrier is open).
C6_AwaitReturnsResolved ==
    /\ \A a \in Awaiters :
          (apc[a] = "returned" /\ aret[a].via \in {"chan", "cache"})
              => aret[a].pair = firstArg /\ firstArg # NoPair
    /\ \A a, b \in Awaiters :
          (aret[a].via \in {"chan", "cache"} /\ aret[b].via \in {"chan", "cache"})
              => aret[a].pair = aret[b].pair
    /\ fOnce = "done" =>
          \A a \in Awaiters :
              /\ apc[a] = "select" => (fch # <<>> \/ fchClosed)
              /\ apc[a] = "wait" => cacheSet = 0

\* C6 witness: one reader got the value from the channel and another reader,
\* arriving after the channel was drained and closed, got it from the cache.
C6_Witness ==
    \E a, b \in Awaiters :
        /\ a # b
        /\ apc[a] = "returned" /\ aret[a].via = "chan"
        /\ apc[b] = "returned" /\ aret[b].via = "cache"

(***************************************************************************)
(* eventbus.EventBus                                                       *)
(***************************************************************************)
\* groups of variables an operation of the bus leaves alone
confvars == <<numWorkers, startCtxDone>>
tabvars == <<handlers, handledEvents, nwrites>>
dispvars == <<dpc, devent, dlate>>
ghostvars == <<consumedBy, routed, invoked, failed, flushed, flushedTo, deliveredTo>>
testvars == <<hpush, dispatched, handled>>
loopvars == <<wrec, wvisited, wsnap>>
objvars == <<hobj, whandler>>
qExceptDisp == <<values, chanSize, recvBuf, recvQ, recvClosed, recvNil,
                 dispClosed, ctxDone, stoppedClosed, mpc, stopping, head, ppc,
                 pelem, cpc, delivered, doneAtStop, flightAtStop, unpopped, recvOrder>>
qExceptPush == <<values, chanSize, recvBuf, recvQ, recvClosed, recvNil, dispBuf,
                 dispClosed, ctxDone, stoppedClosed, mpc, stopping, head, cpc,
                 delivered, doneAtStop, flightAtStop, unpopped, recvOrder>>
qExceptCtx == <<values, chanSize, recvBuf, recvQ, recvClosed, recvNil, dispBuf,
                dispClosed, stoppedClosed, mpc, stopping, head, ppc, pelem, cpc,
                delivered, doneAtStop, flightAtStop, unpopped, recvOrder>>

\* the workers Start spawned
Running == 1..numWorkers

\* the event of the record a dispatch of evt publishes: EventNone is not
\* published, DispatchError(ErrInvalidEvent) publishes EventAsyncError
PublishedEventMutantFirst(evt) == IF evt = EventNone THEN FirstEvent ELSE evt

PublishedEvent(evt) == IF evt = EventNone THEN EventAsyncError ELSE evt

\* busDispatch.event of the record with value v: the records a handler
\* dispatches carry SecondEvent
RecEvent(v) == IF v \in Pushers THEN PublishedEvent(devent[v]) ELSE SecondEvent

\* the table after Register(id, reg[id], handler) for every registered id
Registered(reg) ==
    /\ handlers = {id \in HandlerIDs : reg[id] # EventNone}
    /\ handledEvents = [e \in Events |-> {id \in HandlerIDs : reg[id] = e}]
    /\ hobj = [id \in HandlerIDs |-> IF reg[id] # EventNone THEN FirstObj ELSE "none"]

\* EventBus.Start: the ChannelQueue is created with ChannelSize = numWorkers
\* and numWorkers worker goroutines are spawned
EventBus_Start ==
    /\ NewChannelQueue(numWorkers)
    /\ recvOrder = NoOrder
    /\ ppc = [p \in AllPushers |-> "off"]
    /\ cpc = "off"
    /\ wpc = [w \in Workers |-> IF w \in Running THEN "select" ELSE "off"]

\* every variable of the bus but the table and the workers' positions is as
\* NewEventBus and BusIdle leave it
BusFresh ==
    /\ startCtxDone = FALSE
    /\ rlock = 0
    /\ stopCount = [id \in HandlerIDs |-> 0]
    /\ nwrites = 0
    /\ dpc = [d \in Pushers |-> "idle"]
    /\ devent = [d \in Pushers |-> EventNone]
    /\ dlate = [d \in Pushers |-> FALSE]
    /\ fut = [v \in AllPushers |-> "none"]
    /\ nres = [v \in AllPushers |-> 0]
    /\ wrec = [w \in Workers |-> NoRec]
    /\ wvisited = [w \in Workers |-> {}]
    /\ whandler = [w \in Workers |-> "none"]
    /\ werrs = [w \in Workers |-> <<>>]
    /\ wctx = [w \in Workers |-> TRUE]
    /\ wsnap = [w \in Workers |-> NoSnap]
    /\ consumedBy = [v \in AllPushers |-> {}]
    /\ routed = [v \in AllPushers |-> {}]
    /\ invoked = [v \in AllPushers |-> {}]
    /\ failed = [v \in AllPushers |-> <<>>]
    /\ flushed = [v \in AllPushers |-> FALSE]
    /\ flushedTo = [v \in AllPushers |-> {}]
    /\ deliveredTo = [v \in AllPushers |-> {}]
    /\ hpush = [w \in Workers |-> 0]
    /\ dispatched = 0
    /\ handled = 0

\* future.Resolve takes effect on a future that is not resolved yet; on a
\* resolved one, and on the symbolic future of Dispatch, it does nothing
ResolveMutantAlways(f) == f # "symbolic"
ResolveFree(f) == f = "unresolved"
Resolve(f, x) == IF ResolveFree(f) THEN x ELSE f
Resolved(f) == IF ResolveFree(f) THEN 1 ELSE 0

\* EventBus.Stop / AwaitStop: stopDispatch.Do(b.events.Stop), q.ctx is
\* cancelled
EventBus_Stop ==
    /\ ~ctxDone
    /\ ctxDone' = TRUE
    /\ UNCHANGED qExceptCtx
    /\ UNCHANGED <<fvars, bvars, xvars>>

\* the context given to Start is cancelled; q.ctx derives from it. With
\* observe the pushes that have been accepted by then are noted.
CancelStartCtx(observe) ==
    /\ ~startCtxDone
    /\ startCtxDone' = TRUE
    /\ ctxDone' = TRUE
    /\ doneAtStop' = IF observe THEN {p \in AllPushers : ppc[p] = "done"} ELSE doneAtStop
    /\ UNCHANGED <<values, chanSize, recvBuf, recvQ, recvClosed, recvNil, dispBuf,
                   dispClosed, stoppedClosed, mpc, stopping, head, ppc, pelem, cpc,
                   delivered, flightAtStop, unpopped, recvOrder>>
    /\ UNCHANGED <<numWorkers, tabvars, rlock, stopCount, dispvars, fut, nres,
                   wpc, loopvars, werrs, wctx, ghostvars, testvars>>
    /\ UNCHANGED <<fvars, xvars, objvars>>

\* b.events is nil: Start has not created the ChannelQueue yet
EventsNil == mpc = "nil"

\* EventBus.DispatchResult(evt), up to the choice of the select in Push: the
\* record is created with a fresh future and pushed with priority 0. For
\* EventNone the record is the one of DispatchError(ErrInvalidEvent) and the
\* future handed back is StaticFuture(ErrInvalidEvent)
DispatchResult_call(d, evt) ==
    /\ dpc[d] = "idle"
    /\ ~EventsNil
    /\ devent' = [devent EXCEPT ![d] = evt]
    /\ dlate' = [dlate EXCEPT ![d] = ctxDone]
    /\ fut' = [fut EXCEPT ![d] = IF evt = EventNone THEN "invalid" ELSE "unresolved"]
    /\ pelem' = [pelem EXCEPT ![d] = Elem(d, 0)]
    /\ ppc' = [ppc EXCEPT ![d] = IF PushCheck(ctxDone) THEN "rejected" ELSE "send"]
    /\ dpc' = [dpc EXCEPT ![d] = "push"]
    /\ UNCHANGED qExceptPush
    /\ UNCHANGED <<confvars, tabvars, rlock, stopCount, nres, wpc, loopvars,
                   werrs, wctx, ghostvars, testvars>>
    /\ UNCHANGED <<fvars, xvars, objvars>>

\* the result of ChannelQueue.Push as DispatchResult reads it: true when the
\* value was sent on the input channel, false when the select of PushRanked
\* took the case <-q.ctx.Done()
PushAccepted(p) == ppc[p] = "done"

\* EventBus.DispatchResult, after Push: a refused record resolves with
\* ErrShuttingDown; the future is returned
DispatchResult_return(d) ==
    /\ dpc[d] = "push"
    /\ ppc[d] \in {"done", "rejected"}
    /\ fut' = [fut EXCEPT ![d] = IF devent[d] # EventNone /\ ~PushAccepted(d)
                                  THEN Resolve(@, "shutdown") ELSE @]
    /\ nres' = [nres EXCEPT ![d] = IF devent[d] # EventNone /\ ~PushAccepted(d)
                                    THEN @ + Resolved(fut[d]) ELSE @]
    /\ dpc' = [dpc EXCEPT ![d] = "returned"]
    /\ UNCHANGED qvars
    /\ UNCHANGED <<confvars, tabvars, rlock, stopCount, devent, dlate, wpc, loopvars,
                   werrs, wctx, ghostvars, testvars>>
    /\ UNCHANGED <<fvars, xvars, objvars>>

\* the handlers the error flush invokes: the ids registered for
\* EventAsyncError whose handler is found in b.handlers
FlushTargetsMutantNone(ids, hs) == {}

FlushTargets(ids, hs) == {id \in ids : id \in hs}

\* the records the errors of a list belong to
ErrRecs(errs) == {errs[i][1] : i \in 1..Len(errs)}
\* the <<failing handler, subscriber>> deliveries of one record's errors
Deliveries(errs, v, targets) ==
    {<<errs[i][2], s>> : i \in {j \in 1..Len(errs) : errs[j][1] = v}, s \in targets}

\* start, loop head: the test len(errs) > 0 fails and the worker goes on to
\* its select
NoErrsMutantSkip(errs) == TRUE

NoErrs(errs) == Len(errs) = 0

\* b.mux.RLock() waits while a goroutine is parked in b.mux.Lock()
WriterWaits == \E x \in Workers : wpc[x] = "lockwait"

\* start, the end of the flush: a herr the error handlers returned is only
\* logged; errs = nil
AfterFlushMutantKeep(errs, herrs) == herrs

AfterFlush(errs, herrs) == <<>>

\* start, loop head with len(errs) > 0: under the read lock every error goes to
\* every error handler, which may fail on it (what those handlers return is
\* ignored); errs = nil
start_flush(w) ==
    /\ wpc[w] = "select"
    /\ werrs[w] # <<>>
    /\ ~WriterWaits
    /\ LET targets == FlushTargets(handledEvents[EventAsyncError], handlers)
       IN /\ deliveredTo' = [v \in AllPushers |->
                                deliveredTo[v] \cup Deliveries(werrs[w], v, targets)]
          /\ flushed' = [v \in AllPushers |-> flushed[v] \/ v \in ErrRecs(werrs[w])]
          /\ flushedTo' = [v \in AllPushers |->
                              IF v \in ErrRecs(werrs[w])
                              THEN handledEvents[EventAsyncError] ELSE flushedTo[v]]
          /\ \E fails \in BOOLEAN :
                werrs' = [werrs EXCEPT ![w] =
                             AfterFlush(@, IF fails /\ targets # {} THEN @ ELSE <<>>)]
    /\ UNCHANGED qvars
    /\ UNCHANGED <<confvars, tabvars, rlock, stopCount, dispvars, fut, nres, wpc,
                   loopvars, wctx, consumedBy, routed, invoked, failed, testvars>>
    /\ UNCHANGED <<fvars, xvars, objvars>>

\* start, case <-ctxCh: b.Stop() (the queue's context is cancelled already,
\* it derives from ctx); ctxCh = nil
start_ctxDone(w) ==
    /\ wpc[w] = "select"
    /\ NoErrs(werrs[w])
    /\ wctx[w]
    /\ startCtxDone
    /\ wctx' = [wctx EXCEPT ![w] = FALSE]
    /\ UNCHANGED qvars
    /\ UNCHANGED <<confvars, tabvars, rlock, stopCount, dispvars, fut, nres, wpc,
                   loopvars, werrs, ghostvars, testvars>>
    /\ UNCHANGED <<fvars, xvars, objvars>>

\* start, the empty handler set: if dispatch.event != EventAsyncError the
\* no-handler error is reported
ReportsNoHandlerMutantAlways(ev) == TRUE

ReportsNoHandler(ev) == ev # EventAsyncError

\* start, case dispatch, more := <-events.C with a record: the read lock is
\* taken and the handler set looked up. With no handler the record resolves
\* with the no-handler error (unless it is an EventAsyncError), then with nil
\* by the deferred call, and the lock is released.
start_recv(w) ==
    /\ wpc[w] = "select"
    /\ NoErrs(werrs[w])
    /\ dispBuf # <<>>
    /\ ~WriterWaits
    /\ dispBuf' = Tail(dispBuf)
    /\ LET v == Head(dispBuf)
           hs == handledEvents[RecEvent(v)]
           f1 == IF ReportsNoHandler(RecEvent(v)) THEN Resolve(fut[v], "nohandler") ELSE fut[v]
           n1 == IF ReportsNoHandler(RecEvent(v)) THEN Resolved(fut[v]) ELSE 0
       IN /\ consumedBy' = [consumedBy EXCEPT ![v] = @ \cup {w}]
          /\ routed' = [routed EXCEPT ![v] = hs]
          /\ IF hs = {}
             THEN /\ fut' = [fut EXCEPT ![v] = Resolve(f1, "nil")]
                  /\ nres' = [nres EXCEPT ![v] = @ + n1 + Resolved(f1)]
                  /\ werrs' = [werrs EXCEPT ![w] =
                                  IF ReportsNoHandler(RecEvent(v))
                                  THEN Append(@, <<v, "none">>) ELSE @]
                  /\ UNCHANGED <<wpc, rlock, wrec, wsnap>>
             ELSE /\ wpc' = [wpc EXCEPT ![w] = "iter"]
                  /\ rlock' = rlock + 1
                  /\ wrec' = [wrec EXCEPT ![w] = v]
                  /\ wsnap' = [wsnap EXCEPT ![w] = <<handlers, handledEvents>>]
                  /\ UNCHANGED <<fut, nres, werrs>>
    /\ UNCHANGED qExceptDisp
    /\ UNCHANGED <<confvars, tabvars, stopCount, dispvars, wvisited, wctx,
                   invoked, failed, flushed, flushedTo, deliveredTo, testvars>>
    /\ UNCHANGED <<fvars, xvars, objvars>>

\* the handler ids the range loop of worker w has still to pass
ToVisitMutantNone(w) == {}

ToVisit(w) == routed[wrec[w]] \ wvisited[w]

\* start, one pass of for id := range handlers: a handler that is not found
\* is skipped; an error the handler returns resolves the future and is
\* appended to errs
start_handle(w) ==
    /\ wpc[w] = "iter"
    /\ \E id \in ToVisit(w) :
        /\ wvisited' = [wvisited EXCEPT ![w] = @ \cup {id}]
        /\ whandler' = [whandler EXCEPT ![w] = hobj[id]]
        /\ IF id \notin handlers
           THEN UNCHANGED <<invoked, fut, nres, failed, werrs>>
           ELSE /\ invoked' = [invoked EXCEPT ![wrec[w]] = @ \cup {id}]
                /\ \E ok \in BOOLEAN :
                     IF ok
                     THEN UNCHANGED <<fut, nres, failed, werrs>>
                     ELSE /\ fut' = [fut EXCEPT ![wrec[w]] = Resolve(@, id)]
                          /\ nres' = [nres EXCEPT ![wrec[w]] = @ + Resolved(fut[wrec[w]])]
                          /\ failed' = [failed EXCEPT ![wrec[w]] = Append(@, id)]
                          /\ werrs' = [werrs EXCEPT ![w] = Append(@, <<wrec[w], id>>)]
    /\ UNCHANGED qvars
    /\ UNCHANGED <<confvars, tabvars, rlock, stopCount, dispvars, wpc, wrec,
                   wsnap, wctx, consumedBy, routed, flushed, flushedTo,
                   deliveredTo, testvars>>
    /\ UNCHANGED <<fvars, xvars, hobj>>

\* start, end of the locked region: the deferred dispatch.future.Resolve(nil),
\* then the read lock is released
start_endDispatch(w) ==
    /\ wpc[w] = "iter"
    /\ ToVisit(w) = {}
    /\ fut' = [fut EXCEPT ![wrec[w]] = Resolve(@, "nil")]
    /\ nres' = [nres EXCEPT ![wrec[w]] = @ + Resolved(fut[wrec[w]])]
    /\ rlock' = rlock - 1
    /\ wpc' = [wpc EXCEPT ![w] = "select"]
    /\ wrec' = [wrec EXCEPT ![w] = NoRec]
    /\ wvisited' = [wvisited EXCEPT ![w] = {}]
    /\ wsnap' = [wsnap EXCEPT ![w] = NoSnap]
    /\ whandler' = [whandler EXCEPT ![w] = "none"]
    /\ UNCHANGED qvars
    /\ UNCHANGED <<confvars, tabvars, stopCount, dispvars, werrs, wctx,
                   ghostvars, testvars>>
    /\ UNCHANGED <<fvars, xvars, hobj>>

\* a receive from a channel reports more = false when the channel is closed
\* and every value sent before the close has been received
NoMoreMutantEarly(buf, closed) == closed

NoMore(buf, closed) == buf = <<>> /\ closed

\* start, case dispatch, more := <-events.C with !more: return
start_closed(w) ==
    /\ wpc[w] = "select"
    /\ NoErrs(werrs[w])
    /\ NoMore(dispBuf, dispClosed)
    /\ wpc' = [wpc EXCEPT ![w] = "stop"]
    /\ UNCHANGED qvars
    /\ UNCHANGED <<confvars, tabvars, rlock, stopCount, dispvars, fut, nres,
                   loopvars, werrs, wctx, ghostvars, testvars>>
    /\ UNCHANGED <<fvars, xvars, objvars>>

\* start, deferred: for _, handler := range b.handlers { handler.Stop() },
\* then doneDispatching.Done()
start_stopHandlers(w) ==
    /\ wpc[w] = "stop"
    /\ stopCount' = [id \in HandlerIDs |->
                        IF id \in handlers THEN stopCount[id] + 1 ELSE stopCount[id]]
    /\ wpc' = [wpc EXCEPT ![w] = "exited"]
    /\ UNCHANGED qvars
    /\ UNCHANGED <<confvars, tabvars, rlock, dispvars, fut, nres, loopvars,
                   werrs, wctx, ghostvars, testvars>>
    /\ UNCHANGED <<fvars, xvars, objvars>>

\* b.mux.Lock() succeeds when no reader holds the lock
LockMutantIgnoreReaders(n) == TRUE
LockFree(n) == n = 0

\* what every write of the registration table leaves alone
WriteFrame ==
    /\ UNCHANGED qvars
    /\ UNCHANGED <<confvars, rlock, dispvars, fut, nres, wpc, loopvars, werrs,
                   wctx, ghostvars, testvars>>
    /\ UNCHANGED <<fvars, xvars, whandler>>

\* the registration calls a behaviour may still make: MaxSetupWrites on a bus
\* that has not been started, MaxWrites on a started one
WriteBudget == IF EventsNil THEN MaxSetupWrites ELSE MaxWrites

\* _, ok := b.handlers[id]
HasHandlerMutantAny(id, hs) == TRUE

HasHandler(id, hs) == id \in hs

\* UnRegister, for _, handlerSet := range b.handledEvents: handlerSet.Remove(id)
\* (set.Set is a map, Remove deletes in place)
RemoveFromAllMutantDiscard(sets, id) == sets

RemoveFromAll(sets, id) == [e \in DOMAIN sets |-> sets[e] \ {id}]

\* Register: b.handlers[id] = handler
BindMutantKeepFirst(m, id, h) == IF m[id] = "none" THEN [m EXCEPT ![id] = h] ELSE m

Bind(m, id, h) == [m EXCEPT ![id] = h]

\* EventBus.Register(id, evt, handler)
Register(id, evt, h) ==
    /\ nwrites < WriteBudget
    /\ LockFree(rlock)
    /\ handlers' = handlers \cup {id}
    /\ hobj' = Bind(hobj, id, h)
    /\ handledEvents' = [handledEvents EXCEPT ![evt] = @ \cup {id}]
    /\ nwrites' = nwrites + 1
    /\ UNCHANGED stopCount
    /\ WriteFrame

\* EventBus.UnRegister(id) of a registered id: handler.Stop(), the id leaves
\* the map and every handler set
UnRegister(id) ==
    /\ nwrites < WriteBudget
    /\ LockFree(rlock)
    /\ id \in handlers
    /\ stopCount' = [stopCount EXCEPT ![id] = @ + 1]
    /\ handlers' = handlers \ {id}
    /\ hobj' = [hobj EXCEPT ![id] = "none"]
    /\ handledEvents' = RemoveFromAll(handledEvents, id)
    /\ nwrites' = nwrites + 1
    /\ WriteFrame

\* EventBus.AddHandledEvent(id, evt) of a registered id
AddHandledEvent(id, evt) ==
    /\ nwrites < WriteBudget
    /\ LockFree(rlock)
    /\ HasHandler(id, handlers)
    /\ handledEvents' = [handledEvents EXCEPT ![evt] = @ \cup {id}]
    /\ nwrites' = nwrites + 1
    /\ UNCHANGED <<handlers, hobj, stopCount>>
    /\ WriteFrame

\* SetHandledExclusive: b.handledEvents[evt] = set.New(id)
ExclusiveMutantAdd(sets, id, evt) == [sets EXCEPT ![evt] = @ \cup {id}]

Exclusive(sets, id, evt) == [sets EXCEPT ![evt] = {id}]

\* EventBus.SetHandledExclusive(id, evt) of a registered id
SetHandledExclusive(id, evt) ==
    /\ nwrites < WriteBudget
    /\ LockFree(rlock)
    /\ HasHandler(id, handlers)
    /\ handledEvents' = Exclusive(handledEvents, id, evt)
    /\ nwrites' = nwrites + 1
    /\ UNCHANGED <<handlers, hobj, stopCount>>
    /\ WriteFrame

\* EventBus.RemoveHandledEvent(id, evt) of a registered id
RemoveHandledEvent(id, evt) ==
    /\ nwrites < WriteBudget
    /\ LockFree(rlock)
    /\ HasHandler(id, handlers)
    /\ handledEvents' = [handledEvents EXCEPT ![evt] = @ \ {id}]
    /\ nwrites' = nwrites + 1
    /\ UNCHANGED <<handlers, hobj, stopCount>>
    /\ WriteFrame

\* the registrations made before Start: h1 handles FirstEvent, h2 handles
\* FirstEvent too or subscribes to the asynchronous errors
Registrations ==
    {[h1 |-> FirstEvent, h2 |-> FirstEvent], [h1 |-> FirstEvent, h2 |-> EventAsyncError]}

\* a bus built with 1..MaxWorkers workers, its handlers registered, started
InitBus ==
    /\ NewFuture
    /\ ExtraUnused
    /\ \E n \in 1..MaxWorkers : numWorkers = n
    /\ \E reg \in Registrations : Registered(reg)
    /\ EventBus_Start
    /\ BusFresh

\* the bus from Start to the end of its shutdown, no registration call made
\* while it runs
NextBus ==
    \/ worker_pop
    \/ worker_stopping
    \/ worker_recv
    \/ worker_disp
    \/ worker_ctxDone
    \/ worker_drainRecv
    \/ worker_drainDefault
    \/ worker_nilRecv
    \/ worker_closeRecv
    \/ worker_iterPop
    \/ worker_iterSend
    \/ worker_closeDisp
    \/ worker_closeStopped
    \/ EventBus_Stop
    \/ CancelStartCtx(FALSE)
    \/ \E d \in Pushers : DispatchResult_call(d, FirstEvent)
    \/ \E d \in Pushers : PushRanked_send(d)
    \/ \E d \in Pushers : DispatchResult_return(d)
    \/ \E w \in Workers : start_flush(w)
    \/ \E w \in Workers : start_ctxDone(w)
    \/ \E w \in Workers : start_recv(w)
    \/ \E w \in Workers : start_handle(w)
    \/ \E w \in Workers : start_endDispatch(w)
    \/ \E w \in Workers : start_closed(w)
    \/ \E w \in Workers : start_stopHandlers(w)

SpecBus == InitBus /\ [][NextBus]_vars

\* the running bus with registration calls made concurrently with dispatches
NextTable ==
    \/ worker_pop
    \/ worker_recv
    \/ worker_disp
    \/ \E d \in Pushers : DispatchResult_call(d, FirstEvent)
    \/ \E d \in Pushers : PushRanked_send(d)
    \/ \E d \in Pushers : DispatchResult_return(d)
    \/ \E w \in Workers : start_flush(w)
    \/ \E w \in Workers : start_recv(w)
    \/ \E w \in Workers : start_handle(w)
    \/ \E w \in Workers : start_endDispatch(w)
    \/ \E id \in HandlerIDs, evt \in RegEvents : Register(id, evt, FirstObj)
    \/ \E id \in HandlerIDs : UnRegister(id)
    \/ \E id \in HandlerIDs, evt \in RegEvents : AddHandledEvent(id, evt)
    \/ \E id \in HandlerIDs, evt \in RegEvents : SetHandledExclusive(id, evt)
    \/ \E id \in HandlerIDs, evt \in RegEvents : RemoveHandledEvent(id, evt)

SpecTable == InitBus /\ [][NextTable]_vars

\* every spawned worker has returned from start and the mediator has exited
AllExited == mpc = "exited" /\ \A w \in Running : wpc[w] = "exited"

(***************************************************************************)
(* TestEventBus_Dispatch_HighVolume: one worker, channel size 1, the first *)
(* handler dispatches SecondEvent twice, NumPushers goroutines dispatch    *)
(* FirstEvent, AwaitStop follows wg.Wait()                                 *)
(***************************************************************************)
\* EventBus.Dispatch(FirstEvent), up to the choice of the select in Push: the
\* record carries the symbolic future
Dispatch_call(d, evt) ==
    /\ dpc[d] = "idle"
    /\ ~EventsNil
    /\ devent' = [devent EXCEPT ![d] = evt]
    /\ dlate' = [dlate EXCEPT ![d] = ctxDone]
    /\ fut' = [fut EXCEPT ![d] = "symbolic"]
    /\ pelem' = [pelem EXCEPT ![d] = Elem(d, 0)]
    /\ ppc' = [ppc EXCEPT ![d] = IF PushCheck(ctxDone) THEN "rejected" ELSE "send"]
    /\ dpc' = [dpc EXCEPT ![d] = "push"]
    /\ UNCHANGED qExceptPush
    /\ UNCHANGED <<confvars, tabvars, rlock, stopCount, nres, wpc, loopvars,
                   werrs, wctx, ghostvars, testvars>>
    /\ UNCHANGED <<fvars, xvars, objvars>>

\* EventBus.Dispatch returns (defer wg.Done() of the dispatching goroutine)
Dispatch_return(d) ==
    /\ dpc[d] = "push"
    /\ ppc[d] \in {"done", "rejected"}
    /\ dpc' = [dpc EXCEPT ![d] = "returned"]
    /\ UNCHANGED qvars
    /\ UNCHANGED <<confvars, tabvars, rlock, stopCount, devent, dlate, fut, nres, wpc,
                   loopvars, werrs, wctx, ghostvars, testvars>>
    /\ UNCHANGED <<fvars, xvars, objvars>>

\* the range loop reaches "first-handler": HandleEvent is entered, two
\* Dispatch(SecondEvent) calls lie ahead
first_HandleEvent(w) ==
    /\ wpc[w] = "iter"
    /\ FirstHandler \in ToVisit(w)
    /\ FirstHandler \in handlers
    /\ invoked' = [invoked EXCEPT ![wrec[w]] = @ \cup {FirstHandler}]
    /\ hpush' = [hpush EXCEPT ![w] = 2]
    /\ wpc' = [wpc EXCEPT ![w] = "handler"]
    /\ whandler' = [whandler EXCEPT ![w] = hobj[FirstHandler]]
    /\ UNCHANGED qvars
    /\ UNCHANGED <<confvars, tabvars, rlock, stopCount, dispvars, fut, nres,
                   loopvars, werrs, wctx, consumedBy, routed, failed, flushed,
                   flushedTo, deliveredTo, dispatched, handled>>
    /\ UNCHANGED <<fvars, xvars, hobj>>

\* inside "first-handler": bus.Dispatch(SecondEvent), up to the choice of the
\* select in Push
first_Dispatch(w) ==
    /\ wpc[w] = "handler"
    /\ hpush[w] > 0
    /\ ppc[WorkerPusher(w)] \in {"off", "done", "rejected"}
    /\ fut' = [fut EXCEPT ![WorkerPusher(w)] = "symbolic"]
    /\ pelem' = [pelem EXCEPT ![WorkerPusher(w)] = Elem(WorkerPusher(w), 0)]
    /\ ppc' = [ppc EXCEPT ![WorkerPusher(w)] =
                  IF PushCheck(ctxDone) THEN "rejected" ELSE "send"]
    /\ hpush' = [hpush EXCEPT ![w] = @ - 1]
    /\ UNCHANGED qExceptPush
    /\ UNCHANGED <<confvars, tabvars, rlock, stopCount, dispvars, nres, wpc,
                   loopvars, werrs, wctx, ghostvars, dispatched, handled>>
    /\ UNCHANGED <<fvars, xvars, objvars>>

\* "first-handler" returns nil after its second Dispatch came back:
\* dispatched += 2 (and wg.Done() once dispatched reaches 2 * NumPushers)
first_return(w) ==
    /\ wpc[w] = "handler"
    /\ hpush[w] = 0
    /\ ppc[WorkerPusher(w)] \in {"done", "rejected"}
    /\ dispatched' = dispatched + 2
    /\ wvisited' = [wvisited EXCEPT ![w] = @ \cup {FirstHandler}]
    /\ wpc' = [wpc EXCEPT ![w] = "iter"]
    /\ UNCHANGED qvars
    /\ UNCHANGED <<confvars, tabvars, rlock, stopCount, dispvars, fut, nres,
                   wrec, wsnap, werrs, wctx, ghostvars, hpush, handled>>
    /\ UNCHANGED <<fvars, xvars, objvars>>

\* the range loop reaches "second-handler": handled++, return nil
second_HandleEvent(w) ==
    /\ wpc[w] = "iter"
    /\ SecondHandler \in ToVisit(w)
    /\ SecondHandler \in handlers
    /\ invoked' = [invoked EXCEPT ![wrec[w]] = @ \cup {SecondHandler}]
    /\ handled' = handled + 1
    /\ wvisited' = [wvisited EXCEPT ![w] = @ \cup {SecondHandler}]
    /\ whandler' = [whandler EXCEPT ![w] = hobj[SecondHandler]]
    /\ UNCHANGED qvars
    /\ UNCHANGED <<confvars, tabvars, rlock, stopCount, dispvars, fut, nres, wpc,
                   wrec, wsnap, werrs, wctx, consumedBy, routed, failed, flushed,
                   flushedTo, deliveredTo, hpush, dispatched>>
    /\ UNCHANGED <<fvars, xvars, hobj>>

\* wg.Wait() returns: every dispatching goroutine is done and the first
\* handler has counted 2 * NumPushers dispatches
WaitGroupDone ==
    /\ \A d \in Pushers : dpc[d] = "returned"
    /\ dispatched >= 2 * NumPushers

\* wg.Wait(); bus.AwaitStop(...)
HighVolume_AwaitStop == WaitGroupDone /\ EventBus_Stop

\* NewEventBus(OptBufferSize(1), OptNumWorkers(1)), the two RegisterFunc, Start
InitHighVolume ==
    /\ NewFuture
    /\ ExtraUnused
    /\ numWorkers = 1
    /\ Registered([h1 |-> FirstEvent, h2 |-> SecondEvent])
    /\ EventBus_Start
    /\ BusFresh

NextHighVolume ==
    \/ worker_pop
    \/ worker_stopping
    \/ worker_recv
    \/ worker_disp
    \/ worker_ctxDone
    \/ worker_drainRecv
    \/ worker_drainDefault
    \/ worker_nilRecv
    \/ worker_closeRecv
    \/ worker_iterPop
    \/ worker_iterSend
    \/ worker_closeDisp
    \/ worker_closeStopped
    \/ HighVolume_AwaitStop
    \/ \E d \in Pushers : Dispatch_call(d, FirstEvent)
    \/ \E p \in AllPushers : PushRanked_send(p)
    \/ \E d \in Pushers : Dispatch_return(d)
    \/ \E w \in Workers : start_recv(w)
    \/ \E w \in Workers : first_HandleEvent(w)
    \/ \E w \in Workers : first_Dispatch(w)
    \/ \E w \in Workers : first_return(w)
    \/ \E w \in Workers : second_HandleEvent(w)
    \/ \E w \in Workers : start_endDispatch(w)
    \/ \E w \in Workers : start_closed(w)
    \/ \E w \in Workers : start_stopHandlers(w)

SpecHighVolume == InitHighVolume /\ [][NextHighVolume]_vars

(***************************************************************************)
(* Properties of the bus                                                   *)
(***************************************************************************)
HandlerOutcomes == {"nil", "nohandler"} \cup HandlerIDs

\* C1: once the mediator and every worker have exited, no DispatchResult call
\* is stuck or has panicked in its push, every returned future is resolved, a
\* record that was accepted has been processed by a worker and its future
\* holds the handler outcome, and a record that was refused resolved with
\* ErrShuttingDown.
C1_EveryFutureResolved ==
    AllExited =>
        \A d \in Pushers :
            /\ ppc[d] \notin {"panicked", "blockedNil"}
            /\ dpc[d] = "returned" =>
                  /\ fut[d] # "unresolved"
                  /\ PushAccepted(d) =>
                        (consumedBy[d] # {} /\ fut[d] \in HandlerOutcomes)
                  /\ ~PushAccepted(d) => fut[d] = "shutdown"

\* C4: in the high-volume scenario the bus never deadlocks (some step is
\* possible until the mediator and the worker have exited), no Dispatch call
\* panics or blocks for good, the second handler never runs more than
\* 2 * NumPushers times, and once AwaitStop has completed every Dispatch(A)
\* has returned and the second handler has run exactly 2 * NumPushers times.
C4_HighVolumeNoDeadlock ==
    /\ \A p \in AllPushers : ppc[p] \notin {"panicked", "blockedNil"}
    /\ handled <= 2 * NumPushers
    /\ ~AllExited => ENABLED NextHighVolume
    /\ AllExited =>
          /\ \A d \in Pushers : dpc[d] = "returned"
          /\ dispatched = 2 * NumPushers
          /\ handled = 2 * NumPushers

\* C4 witness: AwaitStop has completed after NumPushers dispatches of A, each
\* of which made the first handler dispatch B twice.
C4_Witness ==
    /\ AllExited
    /\ stoppedClosed
    /\ dispatched = 2 * NumPushers
    /\ handled = 2 * NumPushers
    /\ invoked[1] = {FirstHandler}

\* the record is not in the hands of a worker
Released(v) == \A w \in Running : wrec[w] # v

\* C7: every dispatch record is received by at most one worker and its future
\* takes a value at most once; once the bus has shut down, every accepted
\* record (its push returned) was received by exactly one worker and resolved
\* exactly once, with nil, the first handler error or the no-handler error.
C7_ConsumedByExactlyOneWorker ==
    \A d \in Pushers :
        /\ Cardinality(consumedBy[d]) <= 1
        /\ nres[d] <= 1
        /\ (AllExited /\ dpc[d] = "returned" /\ PushAccepted(d)) =>
              /\ Cardinality(consumedBy[d]) = 1
              /\ nres[d] = 1
              /\ fut[d] \in HandlerOutcomes

\* the handlers that returned an error for record v
Failed(v) == {failed[v][i] : i \in 1..Len(failed[v])}

\* C8: for a dispatch routed to k handlers of which j returned an error, the
\* future holds the error of the handler that failed first, every one of the k
\* handlers was invoked once the dispatch is over, and the j errors stay in the
\* worker's list until the flush hands each of them to every subscriber of
\* EventAsyncError.
C8_FirstErrorAndAllDelivered ==
    \A d \in Pushers :
        /\ failed[d] # <<>> => fut[d] = Head(failed[d])
        /\ Failed(d) \subseteq invoked[d]
        /\ (consumedBy[d] # {} /\ Released(d)) => invoked[d] = routed[d]
        /\ (failed[d] # <<>> /\ ~flushed[d]) =>
              \E w \in Running :
                  /\ wpc[w] \in {"select", "iter"}
                  /\ \A h \in Failed(d) :
                        \E i \in 1..Len(werrs[w]) : werrs[w][i] = <<d, h>>
        /\ flushed[d] =>
              \A h \in Failed(d) : \A s \in flushedTo[d] : <<h, s>> \in deliveredTo[d]

\* C8 witness: a dispatch went to two handlers, both returned an error, the
\* future holds the first of the two and both errors reached a subscriber.
C8_Witness ==
    \E d \in Pushers :
        /\ Cardinality(routed[d]) = 2
        /\ Len(failed[d]) = 2
        /\ fut[d] = Head(failed[d])
        /\ flushed[d]
        /\ flushedTo[d] # {}
        /\ \A h \in Failed(d) : \A s \in flushedTo[d] : <<h, s>> \in deliveredTo[d]

\* C9: from the lookup of the handler set to the end of the handler loop the
\* worker holds the read lock and the table (handler map and handler sets) is
\* the one it looked up: no registration call has taken effect, every id of
\* the set has its handler in the map, and a dispatch that is over has run
\* every handler of the set it found.
C9_ConsistentTableDuringDispatch ==
    /\ \A w \in Running :
          wpc[w] = "iter" =>
              /\ rlock > 0
              /\ wsnap[w] = <<handlers, handledEvents>>
              /\ routed[wrec[w]] \subseteq handlers
              /\ invoked[wrec[w]] = wvisited[w]
    /\ \A e \in Events : handledEvents[e] \subseteq handlers
    /\ \A d \in Pushers : invoked[d] \subseteq routed[d]

\* C9 witness: a worker is half-way through the handlers of a dispatch while
\* a registration call is still to be made.
C9_Witness ==
    \E w \in Running :
        /\ wpc[w] = "iter"
        /\ wvisited[w] # {}
        /\ ToVisit(w) # {}
        /\ nwrites < MaxWrites

\* C10: once the bus has shut down, Stop() has been called exactly once on
\* every registered handler, whatever the number of workers.
C10_StopOncePerHandler ==
    AllExited => \A id \in handlers : stopCount[id] = 1

(***************************************************************************)
(* queue.Queue used on its own: Push, PushRanked, Pop                      *)
(***************************************************************************)
\* everything but Queue.values and the two counters of its caller
OrderedFrame ==
    /\ UNCHANGED <<chanSize, recvBuf, recvQ, recvClosed, recvNil, dispBuf,
                   dispClosed, ctxDone, stoppedClosed, mpc, stopping, head, ppc,
                   pelem, cpc, delivered, doneAtStop, flightAtStop, unpopped, recvOrder>>
    /\ UNCHANGED <<fvars, bvars, xExceptOrdered>>

\* Queue.PushRanked(val, priority), and Queue.Push(val) as priority 0; the
\* value pushed is the number of the call
Queue_Push(prio) ==
    /\ pushed < MaxPushes
    /\ values' = Queue_PushRanked(values, Elem(pushed + 1, prio))
    /\ pushed' = pushed + 1
    /\ popped' = <<>>
    /\ OrderedFrame

\* Queue.Pop() on a queue that is not empty
Queue_Pop ==
    /\ values # <<>>
    /\ popped' = Append(popped, Head(values))
    /\ values' = Tail(values)
    /\ UNCHANGED pushed
    /\ OrderedFrame

\* NewQueue(): no element
InitOrdered == NewFuture /\ QueueUnused /\ BusUnused /\ ExtraUnused

NextOrdered ==
    \/ \E prio \in Priorities : Queue_Push(prio)
    \/ Queue_Pop

SpecOrdered == InitOrdered /\ [][NextOrdered]_vars

\* priorities never rise along the sequence, and equal priorities keep the
\* order of the pushes
SortedStable(s) ==
    \A i, j \in 1..Len(s) :
        i < j => /\ s[i].priority >= s[j].priority
                 /\ s[i].priority = s[j].priority => s[i].val < s[j].val

\* C15: after any sequence of Push/PushRanked calls the stored sequence is
\* sorted by non-increasing priority and stable, and the elements successive
\* Pop() calls return, followed by what is still stored, are in descending
\* priority and, among equal priorities (0 included), in push order.
C15_PopOrder ==
    /\ SortedStable(values)
    /\ SortedStable(popped \o values)

\* C15 witness: three successive pops returned a higher-priority element that
\* was pushed later, then two elements of equal priority in push order.
C15_Witness ==
    /\ Len(popped) = 3
    /\ popped[1].priority > popped[2].priority
    /\ popped[1].val > popped[2].val
    /\ popped[2].priority = popped[3].priority
    /\ popped[2].val < popped[3].val

\* a HandleEvent call on handler h is still to come: a worker is inside a
\* dispatch whose loop has not reached h yet, or holds errors it will flush
\* to h
HandleEventAhead(h) ==
    \E w \in Running :
        \/ wpc[w] = "iter" /\ h \in ToVisit(w) /\ h \in handlers
        \/ /\ wpc[w] = "select"
           /\ werrs[w] # <<>>
           /\ h \in FlushTargets(handledEvents[EventAsyncError], handlers)

\* C11: shutdown is ordered: once the shutdown Stop() of a handler has been
\* called, the output channel holds no pending dispatch and no worker is in,
\* or about to make, a HandleEvent call on that handler, whatever the number
\* of workers.
C11_DrainBeforeStop ==
    \A h \in handlers :
        stopCount[h] > 0 => (dispBuf = <<>> /\ ~HandleEventAhead(h))

\* the record of dispatcher d is somewhere in the queue: waiting to be sent,
\* in the input channel, stored, held as head, or in the output channel
Enqueued(d) ==
    \/ \E i \in 1..Len(recvQ) : recvQ[i] = d
    \/ \E i \in 1..Len(recvBuf) : recvBuf[i].val = d
    \/ \E i \in 1..Len(values) : values[i].val = d
    \/ head.val = d
    \/ \E i \in 1..Len(dispBuf) : dispBuf[i] = d

\* C12: a DispatchResult call made after Stop has returned does not block:
\* its push is refused at once, the record is never enqueued, no worker
\* receives it, no handler is invoked for it, and the future the call
\* returns is resolved with ErrShuttingDown.
C12_DispatchAfterStop ==
    \A d \in Pushers :
        dlate[d] =>
            /\ ppc[d] = "rejected"
            /\ ~Enqueued(d)
            /\ consumedBy[d] = {}
            /\ invoked[d] = {}
            /\ dpc[d] = "returned" => fut[d] = "shutdown"

\* C12 witness: a DispatchResult call made after Stop has returned with its
\* future resolved with ErrShuttingDown, while another dispatch made before
\* Stop was handled.
C12_Witness ==
    \E d, e \in Pushers :
        /\ dlate[d] /\ dpc[d] = "returned" /\ fut[d] = "shutdown"
        /\ ~dlate[e] /\ invoked[e] # {}

(***************************************************************************)
(* the bus between NewEventBus and Start: registration calls, dispatches,  *)
(* then Start and the delivery of what is dispatched afterwards            *)
(***************************************************************************)
\* NewEventBus(OptNumWorkers(n)): empty tables, b.events is nil, no worker
CreatedBus ==
    /\ \E n \in 1..MaxWorkers : numWorkers = n
    /\ handlers = {}
    /\ handledEvents = [e \in Events |-> {}]
    /\ hobj = [id \in HandlerIDs |-> "none"]
    /\ BusFresh
    /\ wpc = [w \in Workers |-> "off"]
    /\ values = <<>> /\ chanSize = 0 /\ recvBuf = <<>> /\ recvQ = <<>>
    /\ recvClosed = FALSE /\ recvNil = FALSE /\ dispBuf = <<>>
    /\ dispClosed = FALSE /\ ctxDone = FALSE /\ stoppedClosed = FALSE
    /\ mpc = "nil" /\ stopping = FALSE /\ head = NoElem
    /\ pelem = [p \in AllPushers |-> NoElem]
    /\ delivered = <<>> /\ doneAtStop = {} /\ flightAtStop = {}
    /\ unpopped = NoElem
    /\ recvOrder = NoOrder
    /\ ppc = [p \in AllPushers |-> "off"]
    /\ cpc = "off"

NewEventBus_created == NewFuture /\ ExtraUnused /\ CreatedBus

\* EventBus.Start, the first call: b.events = NewChannelQueue(ctx,
\* OptChannelSize(numWorkers)), the mediator and numWorkers workers are spawned
Start_call ==
    /\ EventsNil
    /\ mpc' = "loop"
    /\ chanSize' = numWorkers
    /\ wpc' = [w \in Workers |-> IF w \in Running THEN "select" ELSE "off"]
    /\ UNCHANGED <<values, recvBuf, recvQ, recvClosed, recvNil, dispBuf,
                   dispClosed, ctxDone, stoppedClosed, stopping, head, ppc,
                   pelem, cpc, delivered, doneAtStop, flightAtStop, unpopped, recvOrder>>
    /\ UNCHANGED <<confvars, tabvars, rlock, stopCount, dispvars, fut, nres,
                   loopvars, werrs, wctx, ghostvars, testvars>>
    /\ UNCHANGED <<fvars, xvars, objvars>>

\* EventBus.DispatchResult(evt) / Dispatch(evt) on a bus that is not started:
\* b.events.Push is called on the nil *ChannelQueue, whose PushRanked reads
\* q.ctx: the calling goroutine panics with a nil pointer dereference
DispatchResult_nil(d) ==
    /\ dpc[d] = "idle"
    /\ EventsNil
    /\ devent' = [devent EXCEPT ![d] = FirstEvent]
    /\ fut' = [fut EXCEPT ![d] = "unresolved"]
    /\ dpc' = [dpc EXCEPT ![d] = "panicked"]
    /\ UNCHANGED qvars
    /\ UNCHANGED <<confvars, tabvars, rlock, stopCount, dlate, nres, wpc, loopvars,
                   werrs, wctx, ghostvars, testvars>>
    /\ UNCHANGED <<fvars, xvars, objvars>>

\* EventBus.UnRegister(id) of an id that is not in b.handlers: return
UnRegister_absent(id) ==
    /\ nwrites < WriteBudget
    /\ LockFree(rlock)
    /\ ~HasHandler(id, handlers)
    /\ nwrites' = nwrites + 1
    /\ UNCHANGED <<handlers, hobj, handledEvents, stopCount>>
    /\ WriteFrame

InitCreated == NewEventBus_created

NextCreated ==
    \/ \E id \in HandlerIDs, evt \in RegEvents : Register(id, evt, FirstObj)
    \/ \E id \in HandlerIDs : UnRegister(id)
    \/ \E id \in HandlerIDs : UnRegister_absent(id)
    \/ \E id \in HandlerIDs, evt \in RegEvents : AddHandledEvent(id, evt)
    \/ \E id \in HandlerIDs, evt \in RegEvents : SetHandledExclusive(id, evt)
    \/ \E id \in HandlerIDs, evt \in RegEvents : RemoveHandledEvent(id, evt)
    \/ \E d \in Pushers : DispatchResult_nil(d)
    \/ Start_call
    \/ worker_pop
    \/ worker_recv
    \/ worker_disp
    \/ \E d \in Pushers : DispatchResult_call(d, FirstEvent)
    \/ \E d \in Pushers : PushRanked_send(d)
    \/ \E d \in Pushers : DispatchResult_return(d)
    \/ \E w \in Workers : start_flush(w)
    \/ \E w \in Workers : start_recv(w)
    \/ \E w \in Workers : start_handle(w)
    \/ \E w \in Workers : start_endDispatch(w)

SpecCreated == InitCreated /\ [][NextCreated]_vars

\* C13: on a bus that has been created and not started yet, registration and
\* dispatch are allowed: a Dispatch/DispatchResult call made before Start does
\* not fail, it at most blocks until the bus is started.
C13_DispatchBeforeStart ==
    \A d \in Pushers : dpc[d] # "panicked"

\* C19: after any sequence of Register, UnRegister, AddHandledEvent,
\* SetHandledExclusive and RemoveHandledEvent calls, the handler-id set of
\* every event is a subset of the keys of the handler map.
C19_SetsWithinHandlers ==
    \A e \in Events : \A id \in handledEvents[e] : id \in handlers

\* C19 witness: three registration calls have been made, one of them the
\* UnRegister of h1, and h2 is still bound to an event.
C19_Witness ==
    /\ nwrites = MaxSetupWrites
    /\ stopCount["h1"] = 1
    /\ "h1" \notin handlers
    /\ \E e \in Events : handledEvents[e] = {"h2"}

\* C20: a step that calls Stop() on a handler, or takes an id out of the
\* handler map, is the UnRegister of a registered id: it calls Stop() on that
\* handler once, deletes the id from the map and from every event's set and
\* leaves every other handler and binding as it was; no step calls Stop() on
\* an id that is not registered (UnRegister of an absent id changes nothing).
C20_UnRegisterEffect ==
    [][\A id \in HandlerIDs :
         /\ (id \notin handlers) => stopCount'[id] = stopCount[id]
         /\ (stopCount'[id] # stopCount[id] \/ (id \in handlers /\ id \notin handlers'))
              => /\ stopCount'[id] = stopCount[id] + 1
                 /\ handlers' = handlers \ {id}
                 /\ \A e \in Events : handledEvents'[e] = handledEvents[e] \ {id}
                 /\ \A o \in HandlerIDs \ {id} : stopCount'[o] = stopCount[o]]_vars

\* C20 witness: h1 and h2 were registered for FirstEvent and h1 was
\* unregistered: Stop() was called once on h1 and not on h2, which is still
\* bound to FirstEvent.
C20_Witness ==
    /\ stopCount = [id \in HandlerIDs |-> IF id = "h1" THEN 1 ELSE 0]
    /\ handlers = {"h2"}
    /\ handledEvents[FirstEvent] = {"h2"}
    /\ EventsNil

(***************************************************************************)
(* a running bus that is handed every kind of event: EventNone,            *)
(* EventAsyncError, an event with a handler and an event without one       *)
(***************************************************************************)
\* the events handed to Dispatch and DispatchResult
DispatchEvents == {EventNone, EventAsyncError, FirstEvent, SecondEvent}

NextEvents ==
    \/ worker_pop
    \/ worker_recv
    \/ worker_disp
    \/ \E d \in Pushers, evt \in DispatchEvents : DispatchResult_call(d, evt)
    \/ \E d \in Pushers, evt \in DispatchEvents : Dispatch_call(d, evt)
    \/ \E d \in Pushers : PushRanked_send(d)
    \/ \E d \in Pushers : DispatchResult_return(d)
    \/ \E w \in Workers : start_flush(w)
    \/ \E w \in Workers : start_recv(w)
    \/ \E w \in Workers : start_handle(w)
    \/ \E w \in Workers : start_endDispatch(w)

\* (a Dispatch call returns as a DispatchResult call does: its push is never
\* refused here, and Resolve does nothing on its symbolic future)
SpecEvents == InitBus /\ [][NextEvents]_vars

\* the no-handler error of record d waits in the errs of the worker that
\* received it, which is back at its loop head
ErrorPending(d) ==
    \E w \in consumedBy[d] :
        /\ wpc[w] = "select"
        /\ \E i \in 1..Len(werrs[w]) : werrs[w][i] = <<d, "none">>

\* the no-handler error of record d went to every registered error handler
ErrorDelivered(d) ==
    /\ flushed[d]
    /\ \A s \in handledEvents[EventAsyncError] :
           s \in handlers => <<"none", s>> \in deliveredTo[d]

\* C16: a dispatch of an event other than EventNone and EventAsyncError whose
\* handler set is empty invokes no handler, resolves the future of
\* DispatchResult with the no-handler error of that event, and the same
\* error is held by the receiving worker until its next loop iteration, where
\* it is delivered to every registered error handler.
C16_NoHandler ==
    \A d \in Pushers :
        (/\ devent[d] \notin {EventNone, EventAsyncError}
         /\ consumedBy[d] # {}
         /\ routed[d] = {})
        => /\ invoked[d] = {}
           /\ fut[d] \in {"nohandler", "symbolic"}
           /\ ErrorPending(d) \/ ErrorDelivered(d)
           /\ ErrorPending(d) => \A w \in consumedBy[d] : ENABLED start_flush(w)

\* C16 witness: DispatchResult(SecondEvent), which has no handler, resolved
\* with the no-handler error and the error handler h2 was handed the error.
C16_Witness ==
    \E d \in Pushers :
        /\ devent[d] = SecondEvent
        /\ fut[d] = "nohandler"
        /\ invoked[d] = {}
        /\ deliveredTo[d] = {<<"none", "h2">>}

\* C17: a dispatched EventAsyncError that finds no error handler registered
\* is dropped: no handler is invoked, nothing is appended to errs for it (so
\* nothing is flushed and no further event arises), and the future attached
\* to it resolves with success.
C17_AsyncErrorDropped ==
    \A d \in Pushers :
        (/\ devent[d] = EventAsyncError
         /\ consumedBy[d] # {}
         /\ routed[d] = {})
        => /\ invoked[d] = {}
           /\ \A w \in Workers : d \notin ErrRecs(werrs[w])
           /\ ~flushed[d]
           /\ deliveredTo[d] = {}
           /\ fut[d] \in {"nil", "symbolic"}

\* C17 witness: DispatchResult(EventAsyncError) was received while no error
\* handler was registered and its future resolved with nil.
C17_Witness ==
    \E d \in Pushers :
        /\ devent[d] = EventAsyncError
        /\ handledEvents[EventAsyncError] = {}
        /\ consumedBy[d] # {}
        /\ fut[d] = "nil"
        /\ dpc[d] = "returned"

\* C18: EventNone never reaches a handler of a user event. DispatchResult of
\* EventNone hands back a future resolved with ErrInvalidEvent, and both
\* Dispatch and DispatchResult of EventNone publish one record, of event
\* EventAsyncError: it is received at most once and goes to the error
\* handlers only.
C18_InvalidEvent ==
    \A d \in Pushers :
        (dpc[d] \in {"push", "returned"} /\ devent[d] = EventNone) =>
            /\ fut[d] \in {"invalid", "symbolic"}
            /\ dpc[d] = "returned" => (Enqueued(d) \/ consumedBy[d] # {})
            /\ Cardinality(consumedBy[d]) <= 1
            /\ ~(Enqueued(d) /\ consumedBy[d] # {})
            /\ consumedBy[d] # {} => routed[d] = handledEvents[EventAsyncError]
            /\ invoked[d] \subseteq handledEvents[EventAsyncError]

\* C18 witness: one goroutine called DispatchResult(EventNone) and holds a
\* future resolved with ErrInvalidEvent, another called Dispatch(EventNone),
\* and the error handler h2 was invoked for the record of each.
C18_Witness ==
    \E d, e \in Pushers :
        /\ devent[d] = EventNone /\ fut[d] = "invalid" /\ dpc[d] = "returned"
        /\ devent[e] = EventNone /\ fut[e] = "symbolic"
        /\ invoked[d] = {"h2"}
        /\ invoked[e] = {"h2"}

(***************************************************************************)
(* EventBus.Await(timeout) and AwaitStop(timeout) on a running bus         *)
(***************************************************************************)
\* EventBus.Await(timeout) is called: it goes on to b.events.Await()
Await_call ==
    /\ bawait = "idle"
    /\ bawait' = "queueWait"
    /\ UNCHANGED <<fvars, qvars, bvars, xExceptAwait, timedOut>>

\* EventBus.AwaitStop(timeout) is called: b.Stop(), then b.Await(timeout)
AwaitStop_call ==
    /\ bawait = "idle"
    /\ bawait' = "queueWait"
    /\ ctxDone' = TRUE
    /\ UNCHANGED qExceptCtx
    /\ UNCHANGED <<fvars, bvars, xExceptAwait, timedOut>>

\* the timeout handed to Await has elapsed since the call
Timeout_elapse ==
    /\ bawait \in {"queueWait", "waitGroup"}
    /\ ~timedOut
    /\ timedOut' = TRUE
    /\ UNCHANGED <<fvars, qvars, bvars, xExceptAwait, bawait>>

\* Await, b.events.Await() returns: <-q.stopped, which the mediator closes
\* when it exits. The context with the timeout is created after that.
Await_queue ==
    /\ bawait = "queueWait"
    /\ stoppedClosed
    /\ bawait' = "waitGroup"
    /\ UNCHANGED <<fvars, qvars, bvars, xExceptAwait, timedOut>>

\* Await, <-wait.Done(): the context is cancelled when doneDispatching.Wait()
\* returns (every worker has exited) or when its deadline passes, which is not
\* before the timeout has elapsed since the call
Await_return ==
    /\ bawait = "waitGroup"
    /\ timedOut \/ \A w \in Running : wpc[w] = "exited"
    /\ bawait' = "returned"
    /\ UNCHANGED <<fvars, qvars, bvars, xExceptAwait, timedOut>>

\* a started bus and a goroutine that is about to call Await or AwaitStop
InitAwait ==
    /\ NewFuture
    /\ OrderedUnused
    /\ OtherUnused
    /\ bawait = "idle"
    /\ timedOut = FALSE
    /\ numWorkers = 1
    /\ \E reg \in Registrations : Registered(reg)
    /\ EventBus_Start
    /\ BusFresh

NextAwait ==
    \/ worker_pop
    \/ worker_stopping
    \/ worker_recv
    \/ worker_disp
    \/ worker_ctxDone
    \/ worker_drainRecv
    \/ worker_drainDefault
    \/ worker_nilRecv
    \/ worker_closeRecv
    \/ worker_iterPop
    \/ worker_iterSend
    \/ worker_closeDisp
    \/ worker_closeStopped
    \/ EventBus_Stop
    \/ \E d \in Pushers : DispatchResult_call(d, FirstEvent)
    \/ \E d \in Pushers : PushRanked_send(d)
    \/ \E d \in Pushers : DispatchResult_return(d)
    \/ \E w \in Workers : start_flush(w)
    \/ \E w \in Workers : start_recv(w)
    \/ \E w \in Workers : start_handle(w)
    \/ \E w \in Workers : start_endDispatch(w)
    \/ \E w \in Workers : start_closed(w)
    \/ \E w \in Workers : start_stopHandlers(w)
    \/ Await_call
    \/ AwaitStop_call
    \/ Timeout_elapse
    \/ Await_queue
    \/ Await_return

SpecAwait == InitAwait /\ [][NextAwait]_vars

\* C14: once the timeout handed to Await or AwaitStop has elapsed the call
\* returns, even if the output channel is not closed or a worker has not
\* exited: the caller has returned or its next step can be taken (it is not
\* waiting for the shutdown to make progress).
C14_ReturnsOnTimeout ==
    timedOut => \/ bawait = "returned"
                \/ ENABLED Await_queue
                \/ ENABLED Await_return

\* C21: a SetHandledExclusive(id, e) step on a registered id leaves the
\* handler set of e exactly {id} and every other event's set and the handler
\* map as they were; a later Register(o, e) step adds o to that set without
\* removing id, and a dispatch of e received afterwards is routed to the set
\* as it then stands, so both handlers receive it.
C21_ExclusiveAtCallTime ==
    [][\A id \in HandlerIDs, e \in RegEvents :
         /\ SetHandledExclusive(id, e)
              => /\ handledEvents'[e] = {id}
                 /\ \A o \in Events \ {e} : handledEvents'[o] = handledEvents[o]
                 /\ handlers' = handlers
         /\ Register(id, e, FirstObj)
              => /\ handledEvents'[e] = handledEvents[e] \cup {id}
                 /\ \A o \in Events \ {e} : handledEvents'[o] = handledEvents[o]
         /\ \A w \in Workers, d \in Pushers :
              (start_recv(w) /\ consumedBy[d] = {} /\ consumedBy'[d] # {}
                 /\ RecEvent(d) = e)
              => routed'[d] = handledEvents[e]]_vars

\* C21 witness: h1 was registered for the error event, made the exclusive
\* handler of FirstEvent, h2 was then registered for FirstEvent, and a
\* dispatch of FirstEvent made after Start invoked both.
C21_Witness ==
    /\ nwrites = 3
    /\ handledEvents[EventAsyncError] = {"h1"}
    /\ handledEvents[FirstEvent] = {"h1", "h2"}
    /\ \E d \in Pushers : devent[d] = FirstEvent /\ invoked[d] = {"h1", "h2"}

(***************************************************************************)
(* Register called again for an id that is registered, with another        *)
(* handler object and another event                                        *)
(***************************************************************************)
InitReplace == NewEventBus_created /\ numWorkers = 1

NextReplace ==
    \/ \E id \in HandlerIDs, evt \in RegEvents, h \in HandlerObjs : Register(id, evt, h)
    \/ Start_call
    \/ worker_pop
    \/ worker_recv
    \/ worker_disp
    \/ \E d \in Pushers, evt \in RegEvents : DispatchResult_call(d, evt)
    \/ \E d \in Pushers : PushRanked_send(d)
    \/ \E d \in Pushers : DispatchResult_return(d)
    \/ \E w \in Workers : start_flush(w)
    \/ \E w \in Workers : start_recv(w)
    \/ \E w \in Workers : start_handle(w)
    \/ \E w \in Workers : start_endDispatch(w)

SpecReplace == InitReplace /\ [][NextReplace]_vars

\* C22: a Register(id, e, h) step binds id to the handler object h, whatever
\* object it was bound to, and keeps every event binding there was, adding
\* (e, id); every HandleEvent call a worker makes for id goes to the object
\* id is bound to at that moment, so a replaced object is not invoked again.
C22_ReRegisterReplaces ==
    [][/\ \A id \in HandlerIDs, e \in RegEvents, h \in HandlerObjs :
            Register(id, e, h)
              => /\ hobj'[id] = h
                 /\ \A o \in HandlerIDs \ {id} : hobj'[o] = hobj[o]
                 /\ id \in handledEvents'[e]
                 /\ \A o \in Events : handledEvents[o] \subseteq handledEvents'[o]
       /\ \A w \in Workers, id \in HandlerIDs :
            (start_handle(w) /\ id \in wvisited'[w] \ wvisited[w])
              => /\ whandler'[w] = hobj[id]
                 /\ id \in handledEvents[RecEvent(wrec[w])]]_vars

\* C22 witness: h1 is bound to both events and to the object B after two
\* Register calls, a dispatch of each event has been made, one has invoked h1
\* and the worker is calling B for the other.
C22_Witness ==
    /\ nwrites = 2
    /\ hobj = [id \in HandlerIDs |-> IF id = "h1" THEN "B" ELSE "none"]
    /\ handledEvents[EventAsyncError] = {"h1"}
    /\ handledEvents[FirstEvent] = {"h1"}
    /\ \E d, e \in Pushers :
          /\ devent[d] = EventAsyncError /\ invoked[d] = {"h1"}
          /\ devent[e] = FirstEvent /\ invoked[e] = {"h1"}
          /\ \E w \in Running : wrec[w] = e /\ whandler[w] = "B"

(***************************************************************************)
(* EventBus.Start called by NumStarters goroutines on one bus              *)
(***************************************************************************)
\* sync.Once.Do runs the function for the first caller only
DispatchLoopMutantAlways(o) == TRUE

DispatchLoopFree(o) == o = "new"

\* everything but the callers of Start, the queue's construction and the
\* workers' positions
StartFrame ==
    /\ UNCHANGED <<values, recvBuf, recvQ, recvClosed, recvNil, dispBuf,
                   dispClosed, ctxDone, stoppedClosed, stopping, head, ppc,
                   pelem, cpc, delivered, doneAtStop, flightAtStop, unpopped, recvOrder>>
    /\ UNCHANGED <<confvars, tabvars, rlock, stopCount, dispvars, fut, nres,
                   loopvars, werrs, wctx, ghostvars, testvars>>
    /\ UNCHANGED <<fvars, ovars, avars, tvars, ivars, pvars, lvars, objvars>>

\* Start, b.dispatchLoop.Do(...): the first caller goes on to run the
\* function, any other waits until the function has returned
Start_enter(c) ==
    /\ spc[c] = "idle"
    /\ IF DispatchLoopFree(startOnce)
       THEN startOnce' = "running" /\ spc' = [spc EXCEPT ![c] = "body"]
       ELSE startOnce' = startOnce /\ spc' = [spc EXCEPT ![c] = "wait"]
    /\ UNCHANGED <<mpc, chanSize, wpc, nqueues, nspawned>>
    /\ StartFrame

\* Start, the function handed to Do: NewChannelQueue(ctx, OptChannelSize(
\* numWorkers), ...), b.events = events, numWorkers times go b.start(...)
Start_body(c) ==
    /\ spc[c] = "body"
    /\ mpc' = "loop"
    /\ chanSize' = numWorkers
    /\ wpc' = [w \in Workers |-> IF w \in Running THEN "select" ELSE "off"]
    /\ nqueues' = nqueues + 1
    /\ nspawned' = nspawned + numWorkers
    /\ startOnce' = "done"
    /\ spc' = [spc EXCEPT ![c] = "after"]
    /\ StartFrame

\* Start returns b: after the function, or once Do sees it has been run
Start_return(c) ==
    /\ \/ spc[c] = "after"
       \/ spc[c] = "wait" /\ startOnce = "done"
    /\ spc' = [spc EXCEPT ![c] = "returned"]
    /\ UNCHANGED <<mpc, chanSize, wpc, nqueues, nspawned, startOnce>>
    /\ StartFrame

InitStart ==
    /\ NewFuture
    /\ OrderedUnused
    /\ bawait = "off"
    /\ timedOut = FALSE
    /\ startOnce = "new"
    /\ spc = [c \in Starters |-> "idle"]
    /\ nqueues = 0
    /\ nspawned = 0
    /\ AwaitStopUnused
    /\ InstanceUnused
    /\ ParamSpecUnused
    /\ LaterUnused
    /\ CreatedBus

NextStart ==
    \/ \E c \in Starters : Start_enter(c)
    \/ \E c \in Starters : Start_body(c)
    \/ \E c \in Starters : Start_return(c)
    \/ worker_pop
    \/ worker_recv
    \/ worker_disp
    \/ \E d \in Pushers : DispatchResult_call(d, FirstEvent)
    \/ \E d \in Pushers : PushRanked_send(d)
    \/ \E d \in Pushers : DispatchResult_return(d)
    \/ \E w \in Workers : start_recv(w)
    \/ \E w \in Workers : start_flush(w)

SpecStart == InitStart /\ [][NextStart]_vars

\* C23: however many goroutines call Start on one bus, in sequence or at the
\* same time, at most one ChannelQueue is constructed and at most numWorkers
\* workers are spawned; once a call has returned exactly one queue exists and
\* exactly numWorkers workers were spawned, and that stays so.
C23_StartOnce ==
    /\ nqueues <= 1
    /\ nspawned = nqueues * numWorkers
    /\ Cardinality({w \in Workers : wpc[w] # "off"}) = nspawned
    /\ (\E c \in Starters : spc[c] = "returned") => nqueues = 1

\* C23 witness: every caller has returned from Start, one of them after the
\* other had run the function, and a dispatch has reached a worker.
C23_Witness ==
    /\ \A c \in Starters : spc[c] = "returned"
    /\ nqueues = 1
    /\ nspawned = 2
    /\ \E d \in Pushers : consumedBy[d] # {}

(***************************************************************************)
(* a running bus whose start context is cancelled (no Stop call is made    *)
(* from outside)                                                           *)
(***************************************************************************)
\* a step of the queue's goroutine
MediatorStep ==
    \/ worker_pop
    \/ worker_stopping
    \/ worker_recv
    \/ worker_disp
    \/ worker_ctxDone
    \/ worker_drainRecv
    \/ worker_drainDefault
    \/ worker_nilRecv
    \/ worker_closeRecv
    \/ worker_iterPop
    \/ worker_iterSend
    \/ worker_closeDisp
    \/ worker_closeStopped

\* a step of a dispatch worker
WorkerStep ==
    \/ \E w \in Workers : start_flush(w)
    \/ \E w \in Workers : start_ctxDone(w)
    \/ \E w \in Workers : start_recv(w)
    \/ \E w \in Workers : start_handle(w)
    \/ \E w \in Workers : start_endDispatch(w)
    \/ \E w \in Workers : start_closed(w)
    \/ \E w \in Workers : start_stopHandlers(w)

NextCancel ==
    \/ worker_pop
    \/ worker_stopping
    \/ worker_recv
    \/ worker_disp
    \/ worker_ctxDone
    \/ worker_drainRecv
    \/ worker_drainDefault
    \/ worker_nilRecv
    \/ worker_closeRecv
    \/ worker_iterPop
    \/ worker_iterSend
    \/ worker_closeDisp
    \/ worker_closeStopped
    \/ CancelStartCtx(TRUE)
    \/ \E d \in Pushers : DispatchResult_call(d, FirstEvent)
    \/ \E d \in Pushers : PushRanked_send(d)
    \/ \E d \in Pushers : DispatchResult_return(d)
    \/ \E w \in Workers : start_flush(w)
    \/ \E w \in Workers : start_ctxDone(w)
    \/ \E w \in Workers : start_recv(w)
    \/ \E w \in Workers : start_handle(w)
    \/ \E w \in Workers : start_endDispatch(w)
    \/ \E w \in Workers : start_closed(w)
    \/ \E w \in Workers : start_stopHandlers(w)

\* a started bus with MaxWorkers workers and one handler, h1 for FirstEvent
InitCancel ==
    /\ NewFuture
    /\ ExtraUnused
    /\ numWorkers = MaxWorkers
    /\ Registered([id \in HandlerIDs |-> IF id = "h1" THEN FirstEvent ELSE EventNone])
    /\ EventBus_Start
    /\ BusFresh

SpecCancel == InitCancel /\ [][NextCancel]_vars

\* the worker has left its loop: the deferred calls are running or have run
Left(w) == wpc[w] \in {"stop", "exited"}

\* C24 as stated: after the start context is cancelled every worker calls
\* b.Stop() exactly once before it leaves its loop, no worker leaves before
\* the queue output is closed and every dispatch accepted before the
\* cancellation has been received by a worker, and the run does not end
\* before the mediator and every worker have exited.
C24_EveryWorkerCallsStop ==
    /\ \A w \in Running : Left(w) => ~wctx[w]
    /\ \A w \in Running : Left(w) => dispClosed
    /\ \A w \in Running : Left(w) => \A p \in doneAtStop : consumedBy[p] # {}
    /\ startCtxDone => (AllExited \/ ENABLED MediatorStep \/ ENABLED WorkerStep)

\* C24: after the start context is cancelled a worker calls b.Stop() at
\* most once, only on a cancelled context, and stops listening to the
\* context with that call (a worker that finds the queue output closed first
\* leaves without calling it); no worker leaves before the queue output is
\* closed and every dispatch accepted before the cancellation has been
\* received by a worker; the run does not end before the mediator and every
\* worker have exited.
C24_CancelDrainsThenExits ==
    /\ [](\A w \in Running : Left(w) => dispClosed)
    /\ [](\A w \in Running : Left(w) => \A p \in doneAtStop : consumedBy[p] # {})
    /\ [](startCtxDone => (AllExited \/ ENABLED MediatorStep \/ ENABLED WorkerStep))
    /\ [](\A w \in Running : ~wctx[w] => startCtxDone)
    /\ [][\A w \in Workers :
            /\ wctx'[w] => wctx[w]
            /\ start_ctxDone(w) => wctx[w] /\ ~wctx'[w] /\ wpc'[w] = "select"]_vars

\* the context was cancelled after a dispatch had been accepted, one worker
\* called b.Stop() and another left on the closed output without calling it,
\* and the mediator and every worker have exited
C24_Witness ==
    /\ startCtxDone
    /\ doneAtStop # {}
    /\ AllExited
    /\ \E w \in Running : wctx[w]
    /\ \E w \in Running : ~wctx[w]

\* the records worker w receives in a step
Received(w) == {d \in AllPushers : w \in consumedBy'[d] \ consumedBy[d]}

\* C25: the errors a worker collected for one dispatch are handed to the
\* subscribers of EventAsyncError before the worker receives its next dispatch
\* or sees the closed output: its list is empty whenever it receives or
\* leaves, never holds the errors of two dispatches, and the errors of the
\* last dispatch before the shutdown have been delivered when the worker has
\* left.
C25_FlushBeforeNext ==
    /\ [][\A w \in Workers :
            /\ Received(w) # {} => werrs[w] = <<>>
            /\ (~Left(w) /\ Left(w)') => werrs[w] = <<>>]_vars
    /\ [](\A w \in Running :
            /\ Cardinality(ErrRecs(werrs[w])) <= 1
            /\ Left(w) => werrs[w] = <<>>)
    /\ [](\A d \in Pushers :
            (failed[d] # <<>> /\ \A w \in Running : Left(w)) =>
                /\ flushed[d]
                /\ \A h \in Failed(d) :
                      \A s \in FlushTargets(flushedTo[d], handlers) :
                          <<h, s>> \in deliveredTo[d])

\* a handler failed for the last dispatch before the shutdown, its error
\* reached a subscriber of EventAsyncError, and every worker has left
C25_Witness ==
    /\ \A w \in Running : Left(w)
    /\ \E d \in Pushers :
          /\ failed[d] # <<>>
          /\ flushed[d]
          /\ \E h \in Failed(d) : \E s \in HandlerIDs : <<h, s>> \in deliveredTo[d]

\* awaiter a returns from an Await by the timeout branch in this step
TimesOut(a) == apc[a] = "select" /\ apc'[a] = "returned" /\ aret'[a].via = "timeout"

\* C26: an Await whose timeout elapses returns the zero value with the
\* deadline error and leaves the channel, the cache and the once-guard of the
\* future as they were; whatever the number of Awaits of a goroutine that
\* timed out before the resolution, an Await that returns a result returns
\* the resolved pair, and after the resolution no Await is left blocked.
C26_TimeoutKeepsResult ==
    /\ [][\A a \in Awaiters :
            TimesOut(a) =>
                /\ aret'[a].pair = [val |-> ZeroVal, err |-> "deadline"]
                /\ UNCHANGED <<fch, fchClosed, fOnce, cacheVal, cacheErr,
                               cacheSet, firstArg>>]_vars
    /\ [](\A a \in Awaiters :
            /\ (apc[a] = "returned" /\ aret[a].via \in {"chan", "cache"}) =>
                  (firstArg # NoPair /\ aret[a].pair = firstArg)
            /\ (aearly[a] > 0 /\ fOnce = "done" /\ apc[a] = "select") =>
                  (fch # <<>> \/ fchClosed))

\* an awaiter whose Await timed out MaxTimeouts times before any Resolve call
\* has then returned the resolved pair
C26_Witness ==
    \E a \in Awaiters :
        /\ aearly[a] = MaxTimeouts
        /\ apc[a] = "returned"
        /\ aret[a].via \in {"chan", "cache"}
        /\ aret[a].pair = firstArg
        /\ firstArg.val # ZeroVal

(***************************************************************************)
(* a ChannelQueue with pushers, a goroutine ranging over C and a goroutine *)
(* that calls AwaitStop, then Len and Pop                                  *)
(***************************************************************************)
\* the steps of that goroutine leave the future, the bus and the rest alone
TesterFrame == UNCHANGED <<fvars, bvars, ovars, avars, svars, ivars, pvars, lvars>>

\* ChannelQueue.AwaitStop, q.Stop(): q.ctx is done from now on
AwaitStop_Stop ==
    /\ tpc = "idle"
    /\ tpc' = "await"
    /\ ctxDone' = TRUE
    /\ doneAtStop' = IF ctxDone THEN doneAtStop ELSE {p \in AllPushers : ppc[p] = "done"}
    /\ flightAtStop' = IF ctxDone THEN flightAtStop ELSE InFlight
    /\ UNCHANGED <<values, chanSize, recvBuf, recvQ, recvClosed, recvNil,
                   dispBuf, dispClosed, stoppedClosed, mpc, stopping, head,
                   ppc, pelem, cpc, delivered, unpopped, recvOrder>>
    /\ UNCHANGED <<tlen, tpop>>
    /\ TesterFrame

\* ChannelQueue.Await, <-q.stopped: the receive proceeds on the closed channel
StoppedMutantOpen(closed) == TRUE

Stopped(closed) == closed

\* ChannelQueue.AwaitStop, q.Await() returns
AwaitStop_Await ==
    /\ tpc = "await"
    /\ Stopped(stoppedClosed)
    /\ tpc' = "len"
    /\ UNCHANGED qvars
    /\ UNCHANGED <<tlen, tpop>>
    /\ TesterFrame

\* ChannelQueue.Len: q.queue.Len(), len(q.values) under the read lock
ChannelQueue_Len ==
    /\ tpc = "len"
    /\ tlen' = Len(values)
    /\ tpc' = "pop"
    /\ UNCHANGED qvars
    /\ UNCHANGED tpop
    /\ TesterFrame

\* ChannelQueue.Pop: a receive on q.disp that does not block. A buffered
\* value is returned with true; a closed or empty channel gives false.
ChannelQueue_Pop ==
    /\ tpc = "pop"
    /\ tpc' = "done"
    /\ IF dispBuf # <<>>
       THEN /\ dispBuf' = Tail(dispBuf)
            /\ tpop' = "found"
       ELSE /\ dispBuf' = dispBuf
            /\ tpop' = "notfound"
    /\ UNCHANGED <<values, chanSize, recvBuf, recvQ, recvClosed, recvNil,
                   dispClosed, ctxDone, stoppedClosed, mpc, stopping, head,
                   ppc, pelem, cpc, delivered, doneAtStop, flightAtStop,
                   unpopped, recvOrder>>
    /\ UNCHANGED tlen
    /\ TesterFrame

InitQueueAwait ==
    /\ NewFuture
    /\ OrderedUnused
    /\ bawait = "off"
    /\ timedOut = FALSE
    /\ StartUnused
    /\ tpc = "idle"
    /\ tlen = NoLen
    /\ tpop = "unset"
    /\ InstanceUnused
    /\ ParamSpecUnused
    /\ LaterUnused
    /\ \E size \in 0..MaxChanSize : NewChannelQueue(size)
    /\ recvOrder = NoOrder
    /\ ppc = [p \in AllPushers |-> IF p \in Pushers THEN "idle" ELSE "off"]
    /\ cpc = "recv"
    /\ BusUnused

NextQueueAwait ==
    \/ worker_pop
    \/ worker_stopping
    \/ worker_recv
    \/ worker_disp
    \/ worker_ctxDone
    \/ worker_drainRecv
    \/ worker_drainDefault
    \/ worker_nilRecv
    \/ worker_closeRecv
    \/ worker_iterPop
    \/ worker_iterSend
    \/ worker_closeDisp
    \/ worker_closeStopped
    \/ ChannelQueue_Stop
    \/ \E p \in Pushers : PushRanked_check(p)
    \/ \E p \in Pushers : PushRanked_send(p)
    \/ Consumer_recv
    \/ AwaitStop_Stop
    \/ AwaitStop_Await
    \/ ChannelQueue_Len
    \/ ChannelQueue_Pop

SpecQueueAwait == InitQueueAwait /\ [][NextQueueAwait]_vars

\* every Push call has returned
PushesReturned == \A p \in Pushers : ppc[p] \in {"done", "rejected"}

\* C27: Await returns only after the mediator has closed the output C (and
\* has emptied its queue); when AwaitStop has returned, every Push call has
\* returned and the goroutine ranging over C has received up to the close,
\* Len() returns 0 and Pop() reports that nothing was found.
C27_AwaitAfterClose ==
    /\ [](tpc \in {"len", "pop", "done"} => (dispClosed /\ values = <<>>))
    /\ [][(PushesReturned /\ cpc = "closed") =>
            /\ (tpc = "len" /\ tpc' = "pop") => tlen' = 0
            /\ (tpc = "pop" /\ tpc' = "done") =>
                  (tpop' = "notfound" /\ dispBuf' = dispBuf)]_vars

\* two pushes had returned, the consumer received both values and the close,
\* and AwaitStop, Len and Pop have returned
C27_Witness ==
    /\ tpc = "done"
    /\ PushesReturned
    /\ cpc = "closed"
    /\ Len(delivered) = NumPushers
    /\ tlen = 0
    /\ tpop = "notfound"

(***************************************************************************)
(* the global instance: InitInstance, Instance and the NewEventBus call    *)
(* they make under initOnce                                                *)
(***************************************************************************)
\* a ConfigOption: OptBufferSize(n) or OptNumWorkers(n)
OptKinds == {"OptBufferSize", "OptNumWorkers"}
OptValues == (0 - 1)..MaxOptValue
Opt(k, n) == [kind |-> k, n |-> n]
Opts == [kind : OptKinds, n : OptValues]
\* the option lists handed to InitInstance
OptLists == UNION {[1..len -> Opts] : len \in 0..MaxOpts}

\* OptBufferSize / OptNumWorkers: if size < 1 the option returns an error
InvalidMutantNegative(n) == n < 0

Invalid(n) == n < 1

\* the conf after a ConfigOption that returned nil
Applied(conf, o) ==
    IF o.kind = "OptBufferSize"
    THEN [conf EXCEPT !.bufferSize = o.n]
    ELSE [conf EXCEPT !.numWorkers = o.n]

\* NewEventBus: conf := busConf{bufferSize: 1, numWorkers: 1}
DefaultConf == Conf(1, 1)

\* initOnce.Do: may this caller run the function?
InitOnceMutantAlways(o) == TRUE

InitOnceFree(o) == o = "new"

\* the steps of these goroutines leave everything else alone
InstanceFrame == UNCHANGED <<fvars, qvars, bvars, ovars, avars, svars, tvars, pvars, lvars>>

\* InitInstance(confFunc...) / Instance(), initOnce.Do(...): the first caller
\* goes on to NewEventBus, a caller that finds the function running waits,
\* a later caller skips it
Instance_enter(c, kind, args) ==
    /\ ipc[c] = "idle"
    /\ ikind' = [ikind EXCEPT ![c] = kind]
    /\ iargs' = [iargs EXCEPT ![c] = args]
    /\ IF InitOnceFree(initOnce)
       THEN /\ initOnce' = "running"
            /\ ipc' = [ipc EXCEPT ![c] = "loop"]
            /\ iconf' = [iconf EXCEPT ![c] = DefaultConf]
            /\ iopts' = [iopts EXCEPT ![c] = args]
       ELSE /\ ipc' = [ipc EXCEPT ![c] = "wait"]
            /\ UNCHANGED <<initOnce, iconf, iopts>>
    /\ UNCHANGED <<instanceBus, iret>>
    /\ InstanceFrame

\* NewEventBus, one pass of for _, fn := range opts: an option that returns
\* an error makes NewEventBus panic; the once-guard counts a panicking
\* function as returned
NewEventBus_opt(c) ==
    /\ ipc[c] = "loop"
    /\ iopts[c] # <<>>
    /\ IF Invalid(Head(iopts[c]).n)
       THEN /\ ipc' = [ipc EXCEPT ![c] = "panicked"]
            /\ initOnce' = "done"
            /\ UNCHANGED <<iconf, iopts>>
       ELSE /\ iconf' = [iconf EXCEPT ![c] = Applied(@, Head(iopts[c]))]
            /\ iopts' = [iopts EXCEPT ![c] = Tail(@)]
            /\ UNCHANGED <<ipc, initOnce>>
    /\ UNCHANGED <<instanceBus, ikind, iargs, iret>>
    /\ InstanceFrame

\* NewEventBus returns the bus with conf: instanceBus = NewEventBus(...),
\* didConfigure = true; the function handed to initOnce.Do returns and the
\* caller returns true (InitInstance) or instanceBus (Instance)
NewEventBus_return(c) ==
    /\ ipc[c] = "loop"
    /\ iopts[c] = <<>>
    /\ instanceBus' = iconf[c]
    /\ initOnce' = "done"
    /\ ipc' = [ipc EXCEPT ![c] = "returned"]
    /\ iret' = [iret EXCEPT ![c] = IF ikind[c] = "InitInstance" THEN "true" ELSE "bus"]
    /\ UNCHANGED <<ikind, iargs, iopts, iconf>>
    /\ InstanceFrame

\* a caller that did not run the function returns once the function has
\* returned: false (InitInstance) or instanceBus (Instance)
Instance_skip(c) ==
    /\ ipc[c] = "wait"
    /\ initOnce = "done"
    /\ ipc' = [ipc EXCEPT ![c] = "returned"]
    /\ iret' = [iret EXCEPT ![c] = IF ikind[c] = "InitInstance" THEN "false" ELSE "bus"]
    /\ UNCHANGED <<initOnce, instanceBus, ikind, iargs, iopts, iconf>>
    /\ InstanceFrame

InitInstances ==
    /\ NewFuture
    /\ QueueUnused
    /\ BusUnused
    /\ OrderedUnused
    /\ bawait = "off"
    /\ timedOut = FALSE
    /\ StartUnused
    /\ AwaitStopUnused
    /\ ParamSpecUnused
    /\ LaterUnused
    /\ initOnce = "new"
    /\ instanceBus = NoConf
    /\ ipc = [c \in InitCallers |-> "idle"]
    /\ ikind = [c \in InitCallers |-> "none"]
    /\ iargs = [c \in InitCallers |-> <<>>]
    /\ iopts = [c \in InitCallers |-> <<>>]
    /\ iconf = [c \in InitCallers |-> NoConf]
    /\ iret = [c \in InitCallers |-> "none"]

NextInstances ==
    \/ \E c \in InitCallers, args \in OptLists : Instance_enter(c, "InitInstance", args)
    \/ \E c \in InitCallers : Instance_enter(c, "Instance", <<>>)
    \/ \E c \in InitCallers : NewEventBus_opt(c)
    \/ \E c \in InitCallers : NewEventBus_return(c)
    \/ \E c \in InitCallers : Instance_skip(c)

SpecInstances == InitInstances /\ [][NextInstances]_vars

\* the callers that ran NewEventBus under initOnce
Initializers == {c \in InitCallers : iconf[c] # NoConf}

\* the size the last option of kind k in args asks for, 1 without one
Asked(args, k) ==
    LET is == {i \in 1..Len(args) : args[i].kind = k}
    IN IF is = {} THEN 1
       ELSE args[CHOOSE i \in is : \A j \in is : j <= i].n

\* C28: at most one InitInstance call returns true, and only the call that
\* ran NewEventBus itself: no other InitInstance or Instance call had
\* initialized the instance before. The instance keeps the configuration
\* of the call that initialized it and never changes afterwards; every
\* other InitInstance call returns false and leaves the instance alone.
C28_InitOnce ==
    /\ [](Cardinality({c \in InitCallers : iret[c] = "true"}) <= 1)
    /\ [](Cardinality(Initializers) <= 1)
    /\ [](\A c \in InitCallers :
            /\ iret[c] = "true" =>
                  /\ c \in Initializers
                  /\ ikind[c] = "InitInstance"
                  /\ instanceBus = Conf(Asked(iargs[c], "OptBufferSize"),
                                        Asked(iargs[c], "OptNumWorkers"))
            /\ (ikind[c] = "InitInstance" /\ ipc[c] = "returned" /\ c \notin Initializers)
                  => iret[c] = "false"
            /\ (ikind[c] = "Instance" /\ c \in Initializers /\ ipc[c] = "returned")
                  => instanceBus = DefaultConf)
    /\ [][/\ instanceBus # NoConf => instanceBus' = instanceBus
          /\ \A c \in InitCallers :
                (iret[c] = "none" /\ iret'[c] = "false") => instanceBus' = instanceBus]_vars

\* one InitInstance call configured the instance with sizes other than the
\* defaults and returned true, another call with other options returned false
C28_Witness ==
    \E c, o \in InitCallers :
        /\ iret[c] = "true"
        /\ iret[o] = "false"
        /\ iargs[o] # iargs[c]
        /\ iargs[o] # <<>>
        /\ instanceBus = Conf(MaxOptValue, MaxOptValue)

\* caller c passes one option of its NewEventBus call in this step
AppliesOpt(c) ==
    /\ ipc[c] = "loop"
    /\ iopts[c] # <<>>
    /\ (ipc'[c] # "loop" \/ iopts'[c] # iopts[c])

\* C29: OptBufferSize(n) and OptNumWorkers(n) with n < 1 return an error and
\* leave the conf as it was, and NewEventBus panics on that error without
\* building a bus; with n >= 1 the option sets its own field and nothing
\* else; a NewEventBus call without options builds a bus with both sizes 1,
\* and no bus is ever built with a size below 1.
C29_InvalidOptions ==
    /\ [][\A c \in InitCallers :
            AppliesOpt(c) =>
                LET o == Head(iopts[c])
                IN IF o.n < 1
                   THEN /\ ipc'[c] = "panicked"
                        /\ iconf'[c] = iconf[c]
                        /\ instanceBus' = instanceBus
                   ELSE /\ ipc'[c] = "loop"
                        /\ iconf'[c].bufferSize =
                              (IF o.kind = "OptBufferSize" THEN o.n ELSE iconf[c].bufferSize)
                        /\ iconf'[c].numWorkers =
                              (IF o.kind = "OptNumWorkers" THEN o.n ELSE iconf[c].numWorkers)]_vars
    /\ [](\A c \in InitCallers :
            /\ ipc[c] = "panicked" => \E i \in 1..Len(iargs[c]) : iargs[c][i].n < 1
            /\ (ipc[c] = "returned" /\ c \in Initializers) =>
                  /\ \A i \in 1..Len(iargs[c]) : iargs[c][i].n >= 1
                  /\ iargs[c] = <<>> => iconf[c] = Conf(1, 1)
                  /\ instanceBus.bufferSize >= 1
                  /\ instanceBus.numWorkers >= 1)

\* NewEventBus(OptBufferSize(MaxOptValue), OptNumWorkers(0)) panicked on its
\* second option: the conf still holds the first option's size and the
\* default number of workers, and no bus was built
C29_Witness ==
    \E c \in InitCallers :
        /\ ipc[c] = "panicked"
        /\ iargs[c] = <<Opt("OptBufferSize", MaxOptValue), Opt("OptNumWorkers", 0)>>
        /\ iconf[c] = Conf(MaxOptValue, 1)
        /\ instanceBus = NoConf

(***************************************************************************)
(* ParamSpec: the validator it returns, called on one list of parameters   *)
(***************************************************************************)
\* a Param, by its dynamic type: nil, an int or a string
ParamValues == {"nil", "int", "string"}
\* a ParamAssertion: nil, IsType[int]() or AssertAndStore(target) with an
\* int target
AssertionKinds == {"nil", "IsType", "AssertAndStore"}
ParamLists == UNION {[1..len -> ParamValues] : len \in 0..MaxParams}
AssertionLists == UNION {[1..len -> AssertionKinds] : len \in 0..MaxAssertions}

\* the validator, if len(params) < minParams
NotEnoughMutantEmpty(n, min) == n = 0 /\ min > 0

NotEnough(n, min) == n < min

\* IsType[int] and AssertAndStore(target): the error of the assertion on p
\* (notNil, then IsType), "nil" when it passes
AssertionErr(kind, p) ==
    IF p = "int" THEN "nil" ELSE "ErrUnexpectedTypeParam"

\* the validator, for i := 0; i < len(assertions) && i < len(params); i++
InRangeMutantFirstOnly(i, na, np) == i < na /\ i < np /\ i < 1

InRange(i, na, np) == i < na /\ i < np

\* the validator leaves everything else alone
ParamSpecFrame == UNCHANGED <<fvars, qvars, bvars, ovars, avars, svars, tvars, ivars, lvars>>

\* the validator, entry: var errs []error; too few parameters return the
\* one ErrNotEnoughParams error at once, otherwise the loop starts at i = 0
Validator_check ==
    /\ vpc = "call"
    /\ IF NotEnough(Len(params), minParams)
       THEN /\ verrs' = <<"ErrNotEnoughParams">>
            /\ vpc' = "returned"
       ELSE /\ verrs' = <<>>
            /\ vpc' = "loop"
    /\ UNCHANGED <<minParams, assertions, params, vi, vran, verrpos, vtargets>>
    /\ ParamSpecFrame

\* the validator, one pass of the loop over the positions that have both an
\* assertion and a parameter: a nil assertion is skipped, an error appended
Validator_step ==
    /\ vpc = "loop"
    /\ InRange(vi, Len(assertions), Len(params))
    /\ vi' = vi + 1
    /\ LET kind == assertions[vi + 1]
           p == params[vi + 1]
       IN IF kind = "nil"
          THEN UNCHANGED <<verrs, vran, verrpos, vtargets>>
          ELSE /\ vran' = vran \cup {vi + 1}
               /\ verrs' = IF AssertionErr(kind, p) = "nil"
                          THEN verrs ELSE Append(verrs, AssertionErr(kind, p))
               /\ verrpos' = IF AssertionErr(kind, p) = "nil"
                            THEN verrpos ELSE Append(verrpos, vi + 1)
               /\ vtargets' = IF kind = "AssertAndStore" /\ AssertionErr(kind, p) = "nil"
                             THEN [vtargets EXCEPT ![vi + 1] = TRUE] ELSE vtargets
    /\ UNCHANGED <<minParams, assertions, params, vpc>>
    /\ ParamSpecFrame

\* the validator, after the loop: nil if len(errs) == 0, errs otherwise
Validator_return ==
    /\ vpc = "loop"
    /\ ~InRange(vi, Len(assertions), Len(params))
    /\ vpc' = "returned"
    /\ UNCHANGED <<minParams, assertions, params, vi, verrs, vran, verrpos, vtargets>>
    /\ ParamSpecFrame

InitParamSpec ==
    /\ NewFuture
    /\ QueueUnused
    /\ BusUnused
    /\ OrderedUnused
    /\ bawait = "off"
    /\ timedOut = FALSE
    /\ StartUnused
    /\ AwaitStopUnused
    /\ InstanceUnused
    /\ LaterUnused
    /\ minParams \in 0..MaxMinParams
    /\ assertions \in AssertionLists
    /\ params \in ParamLists
    /\ vpc = "call"
    /\ vi = 0
    /\ verrs = <<>>
    /\ vran = {}
    /\ verrpos = <<>>
    /\ vtargets = [i \in ParamPositions |-> FALSE]

NextParamSpec ==
    \/ Validator_check
    \/ Validator_step
    \/ Validator_return

SpecParamSpec == InitParamSpec /\ [][NextParamSpec]_vars

\* C30: a validator called with fewer parameters than minParams returns
\* exactly one error, ErrNotEnoughParams, and returns it at once: no
\* assertion is called and no target is written.
C30_NotEnoughParams ==
    (vpc = "returned" /\ Len(params) < minParams) =>
        /\ verrs = <<"ErrNotEnoughParams">>
        /\ vran = {}
        /\ vi = 0
        /\ \A i \in ParamPositions : ~vtargets[i]

\* ParamSpec(MaxMinParams, AssertAndStore(&n), ...) was called with fewer
\* parameters, the first of them an int its assertion would have stored:
\* the validator returned the one error and wrote nothing
C30_Witness ==
    /\ vpc = "returned"
    /\ minParams = MaxMinParams
    /\ Len(params) = MaxParams
    /\ params[1] = "int"
    /\ Len(assertions) = MaxAssertions
    /\ assertions[1] = "AssertAndStore"
    /\ verrs = <<"ErrNotEnoughParams">>
    /\ ~vtargets[1]

\* the positions that have both an assertion and a parameter
Paired == {i \in 1..Len(assertions) : i <= Len(params)}

\* the positions whose assertion, non-nil, does not hold of its parameter
\* (the assertions drawn here all ask for an int)
Failing == {i \in Paired : assertions[i] # "nil" /\ params[i] # "int"}

\* C31: a validator called with at least minParams parameters calls
\* assertion i on parameter i for exactly the positions below both lengths
\* whose assertion is not nil, goes on after a failing position, leaves the
\* surplus assertions and parameters alone, and returns the errors of the
\* failing positions in position order, nil when no position failed.
C31_AllPositionsChecked ==
    (vpc = "returned" /\ Len(params) >= minParams) =>
        /\ vran = {i \in Paired : assertions[i] # "nil"}
        /\ Len(verrs) = Cardinality(Failing)
        /\ Len(verrpos) = Len(verrs)
        /\ {verrpos[k] : k \in 1..Len(verrpos)} = Failing
        /\ \A k \in 1..Len(verrpos), l \in 1..Len(verrpos) : k < l => verrpos[k] < verrpos[l]
        /\ \A k \in 1..Len(verrs) : verrs[k] = "ErrUnexpectedTypeParam"
        /\ \A i \in ParamPositions :
              vtargets[i] <=> (i \in Paired /\ assertions[i] = "AssertAndStore" /\ params[i] = "int")

\* two assertions were called on two parameters of the wrong type, more
\* parameters than minParams asks for: both errors came back, in order
C31_Witness ==
    /\ vpc = "returned"
    /\ Len(params) > minParams
    /\ Len(params) = MaxParams
    /\ Len(assertions) = MaxAssertions
    /\ verrpos = <<1, 2>>
    /\ Len(verrs) = 2

(***************************************************************************)
(* one ParamAssertion called on one Param: IsType, AssertAndStore,         *)
(* Optional and AnyPass                                                    *)
(***************************************************************************)
\* the types of the parameters and targets drawn
ParamTypes == {"int", "string"}
\* the type of a target variable; the nil pointer drawn is a *int
TargetType(tgt) == IF tgt = "a" THEN "string" ELSE "int"

\* IsType[T]() and AssertAndStore(target) for a, b and a nil *int
Leaves ==
    {Leaf("IsType", t, "none") : t \in ParamTypes}
        \cup {Leaf("AssertAndStore", TargetType(tgt), tgt) : tgt \in TargetVars \cup {"nilptr"}}
\* Optional(leaf) and AnyPass(leaves...)
Composed(k, alts) == [k |-> k, t |-> "none", tgt |-> "none", alts |-> alts]
Assertions ==
    Leaves
        \cup {Composed("Optional", <<l>>) : l \in Leaves}
        \cup {Composed("AnyPass", alts) :
                 alts \in UNION {[1..n -> Leaves] : n \in 0..MaxAlternatives}}

\* AssertAndStore, if target == nil
NilTargetMutantNever(tgt) == FALSE

NilTarget(tgt) == tgt = "nilptr"

\* what a call returns: its error ("nil": none), the target variables after
\* it, and whether it panicked
Outcome(err, st, panic) == [err |-> err, st |-> st, panic |-> panic]

\* IsType[T]: p.(T) fails on nil and on another type.
\* AssertAndStore(target): the nil-target closure, or notNil, then IsType[T],
\* then *target = p.(T) (a write through a nil pointer panics)
LeafCall(l, p, st) ==
    IF l.k = "IsType"
    THEN Outcome(IF p = l.t THEN "nil" ELSE "ErrUnexpectedTypeParam", st, FALSE)
    ELSE IF NilTarget(l.tgt) THEN Outcome("ErrNilTarget", st, FALSE)
    ELSE IF p = "nil" THEN Outcome("ErrUnexpectedTypeParam", st, FALSE)
    ELSE IF p # l.t THEN Outcome("ErrUnexpectedTypeParam", st, FALSE)
    ELSE IF l.tgt \notin TargetVars THEN Outcome("nil", st, TRUE)
    ELSE Outcome("nil", [st EXCEPT ![l.tgt] = p], FALSE)

\* AnyPass, if err := assertion(pos, p); err != nil { append; continue }
\* return nil
PassedMutantNever(err) == FALSE

Passed(err) == err = "nil"

\* the result of a composed call: the joined errors, the alternatives
\* called, the target variables and whether a call panicked
Result(errs, ran, st, panic) == [errs |-> errs, ran |-> ran, st |-> st, panic |-> panic]

\* AnyPass, the loop over the assertions from alternative i on;
\* errors.Join(errs...) of no error is nil
RECURSIVE AnyPassFrom(_, _, _, _, _, _)
AnyPassFrom(alts, i, p, errs, ran, st) ==
    IF i > Len(alts)
    THEN Result(errs, ran, st, FALSE)
    ELSE LET r == LeafCall(alts[i], p, st)
         IN IF r.panic THEN Result(errs, Append(ran, i), st, TRUE)
            ELSE IF Passed(r.err) THEN Result(<<>>, Append(ran, i), r.st, FALSE)
            ELSE AnyPassFrom(alts, i + 1, p, Append(errs, r.err), Append(ran, i), r.st)

\* Optional: if p == nil return nil, else ifNotNil(pos, p); a leaf called
\* on its own counts as alternative 1
Call(a, p, st) ==
    IF a.k = "AnyPass" THEN AnyPassFrom(a.alts, 1, p, <<>>, <<>>, st)
    ELSE IF a.k = "Optional" /\ p = "nil" THEN Result(<<>>, <<>>, st, FALSE)
    ELSE LET l == IF a.k = "Optional" THEN a.alts[1] ELSE a
             r == LeafCall(l, p, st)
         IN Result(IF r.err = "nil" THEN <<>> ELSE <<r.err>>, <<1>>, r.st, r.panic)

\* the call leaves everything else alone
AssertionFrame ==
    UNCHANGED <<fvars, qvars, bvars, ovars, avars, svars, tvars, ivars, pvars, hvars,
                wcvars>>

\* assertion(pos, p)
Assertion_call ==
    /\ asnPc = "call"
    /\ LET r == Call(asn, asnParam, asnStored)
       IN /\ asnPc' = IF r.panic THEN "panicked" ELSE "returned"
          /\ asnErr' = r.errs
          /\ asnRan' = r.ran
          /\ asnStored' = r.st
    /\ UNCHANGED <<asn, asnParam>>
    /\ AssertionFrame

InitAssertion ==
    /\ NewFuture
    /\ QueueUnused
    /\ BusUnused
    /\ OrderedUnused
    /\ bawait = "off"
    /\ timedOut = FALSE
    /\ StartUnused
    /\ AwaitStopUnused
    /\ InstanceUnused
    /\ ParamSpecUnused
    /\ HandlerAwaitUnused
    /\ WriteCallUnused
    /\ asn \in Assertions
    /\ asnParam \in ParamValues
    /\ asnPc = "call"
    /\ asnErr = <<>>
    /\ asnRan = <<>>
    /\ asnStored = [v \in TargetVars |-> "zero"]

NextAssertion == Assertion_call

SpecAssertion == InitAssertion /\ [][NextAssertion]_vars

\* alternative l holds of parameter p
Holds(l, p) == p = l.t /\ l.tgt # "nilptr"

\* the alternatives of the AnyPass called that hold of its parameter
Passing == {i \in 1..Len(asn.alts) : Holds(asn.alts[i], asnParam)}

\* C32: AnyPass returns nil if one of its alternatives passes and the
\* joined errors of all alternatives if all of them fail; it calls the
\* alternatives in order up to the first that passes and no later one, and
\* writes no target but the one of that alternative.
C32_AnyPass ==
    (asn.k = "AnyPass" /\ asnPc # "call") =>
        /\ asnPc = "returned"
        /\ Passing # {} =>
              LET first == CHOOSE i \in Passing : \A j \in Passing : i <= j
              IN /\ asnErr = <<>>
                 /\ asnRan = [i \in 1..first |-> i]
                 /\ \A v \in TargetVars :
                       asnStored[v] =
                          (IF asn.alts[first].tgt = v THEN asnParam ELSE "zero")
        /\ Passing = {} =>
              /\ Len(asnErr) = Len(asn.alts)
              /\ asnRan = [i \in 1..Len(asn.alts) |-> i]
              /\ \A v \in TargetVars : asnStored[v] = "zero"

\* AnyPass(AssertAndStore(&b), AssertAndStore(&a)) was called on a string:
\* the first alternative failed and left b alone, the second stored a
C32_Witness ==
    /\ asnPc = "returned"
    /\ asn = Composed("AnyPass", <<Leaf("AssertAndStore", "int", "b"),
                                    Leaf("AssertAndStore", "string", "a")>>)
    /\ asnParam = "string"
    /\ asnErr = <<>>
    /\ asnRan = <<1, 2>>
    /\ asnStored = [v \in TargetVars |-> IF v = "a" THEN "string" ELSE "zero"]

\* C33: AssertAndStore(target) writes the parameter into target exactly
\* when the parameter is non-nil and of the target's type, and returns an
\* error and leaves target as it was otherwise; with a nil target it
\* returns an error and does not panic; Optional(inner) called on nil
\* returns nil without calling inner or writing a target.
C33_AssertAndStore ==
    /\ (asn.k = "AssertAndStore" /\ asnPc # "call") =>
          /\ asnPc = "returned"
          /\ IF asn.tgt = "nilptr"
             THEN /\ asnErr = <<"ErrNilTarget">>
                  /\ \A v \in TargetVars : asnStored[v] = "zero"
             ELSE IF asnParam = asn.t
             THEN /\ asnErr = <<>>
                  /\ asnStored[asn.tgt] = asnParam
                  /\ \A v \in TargetVars \ {asn.tgt} : asnStored[v] = "zero"
             ELSE /\ asnErr = <<"ErrUnexpectedTypeParam">>
                  /\ \A v \in TargetVars : asnStored[v] = "zero"
    /\ (asn.k = "Optional" /\ asnPc # "call" /\ asnParam = "nil") =>
          /\ asnPc = "returned"
          /\ asnErr = <<>>
          /\ asnRan = <<>>
          /\ \A v \in TargetVars : asnStored[v] = "zero"

\* AssertAndStore with a nil *int target was called on an int and returned
\* the nil-target error
C33_Witness ==
    /\ asnPc = "returned"
    /\ asn = Leaf("AssertAndStore", "int", "nilptr")
    /\ asnParam = "int"
    /\ asnErr = <<"ErrNilTarget">>

(***************************************************************************)
(* a running ChannelQueue whose output stream nobody receives from         *)
(***************************************************************************)
\* NewChannelQueue with a live context; every caller is about to push and no
\* goroutine ever receives from C
InitNoConsumer ==
    /\ NewFuture
    /\ ExtraUnused
    /\ \E size \in 0..MaxChanSize : NewChannelQueue(size)
    /\ recvOrder = NoOrder
    /\ ppc = [p \in AllPushers |-> "idle"]
    /\ cpc = "off"
    /\ BusUnused

\* the steps of the mediator while its context is live
MediatorRuns == worker_pop \/ worker_recv \/ worker_disp

NextNoConsumer ==
    \/ worker_pop
    \/ worker_recv
    \/ worker_disp
    \/ \E p \in AllPushers : PushRanked_check(p)
    \/ \E p \in AllPushers : PushRanked_send(p)

\* a goroutine that can run is run: the mediator and every pushing caller
SpecNoConsumer ==
    /\ InitNoConsumer
    /\ [][NextNoConsumer]_vars
    /\ WF_vars(MediatorRuns)
    /\ \A p \in AllPushers : WF_vars(PushRanked_send(p))

Senders == 1..(NumPushers + 1)

\* NewChannelQueue; every caller is about to push one value, a goroutine
\* ranges over C, and the order of reception is recorded
InitReceived ==
    /\ NewFuture
    /\ ExtraUnused
    /\ \E size \in 0..MaxChanSize : NewChannelQueue(size)
    /\ recvOrder = <<>>
    /\ ppc = [p \in AllPushers |-> IF p \in Senders THEN "idle" ELSE "off"]
    /\ cpc = "recv"
    /\ BusUnused

NextReceived ==
    \/ worker_pop
    \/ worker_stopping
    \/ worker_recv
    \/ worker_disp
    \/ worker_ctxDone
    \/ worker_drainRecv
    \/ worker_drainDefault
    \/ worker_nilRecv
    \/ worker_closeRecv
    \/ worker_iterPop
    \/ worker_iterSend
    \/ worker_closeDisp
    \/ worker_closeStopped
    \/ ChannelQueue_Stop
    \/ \E p \in Senders : PushRanked_check(p)
    \/ \E p \in Senders : PushRanked_send(p)
    \/ Consumer_recv

SpecReceived == InitReceived /\ [][NextReceived]_vars

\* the values sent on the output so far, in order
Sent == delivered \o dispBuf
\* the values the mediator holds, in the order it will offer them
Held == (IF head # NoElem THEN <<head.val>> ELSE <<>>) \o [i \in 1..Len(values) |-> values[i].val]
\* the position of a received value in the order of reception
Rank(v) == CHOOSE i \in 1..Len(recvOrder) : recvOrder[i] = v
\* value v was received after value u although it stands before it
Overtook(v, u) == Rank(v) > Rank(u)

\* C35: of two values sent on the output, the one sent first was received
\* first unless it has a strictly higher priority, so values of priority 0
\* leave in the order of their reception; the values the mediator holds,
\* a head it took or put back included, stand by falling priority and, at
\* equal priority, in the order of their reception.
C35_OutputFollowsReception ==
    /\ \A i, j \in 1..Len(Sent) :
          i < j =>
             /\ Sent[i] # Sent[j]
             /\ Overtook(Sent[i], Sent[j]) =>
                   pelem[Sent[i]].priority > pelem[Sent[j]].priority
    /\ \A i, j \in 1..Len(Held) :
          i < j =>
             /\ pelem[Held[i]].priority >= pelem[Held[j]].priority
             /\ pelem[Held[i]].priority = pelem[Held[j]].priority =>
                   ~Overtook(Held[i], Held[j])

\* every caller's value was sent on the output, one of priority 1 ahead of
\* an earlier one of priority 0, and two of priority 0 in their order
C35_Witness ==
    /\ Len(Sent) = Cardinality(Senders)
    /\ \E i, j \in 1..Len(Sent) : i < j /\ Overtook(Sent[i], Sent[j])
    /\ \E i, j \in 1..Len(Sent) :
          /\ i < j
          /\ pelem[Sent[i]].priority = 0
          /\ pelem[Sent[j]].priority = 0

(***************************************************************************)
(* a handler that calls a write operation of its own bus from inside       *)
(* HandleEvent                                                             *)
(***************************************************************************)
WriteOps ==
    {"Register", "UnRegister", "AddHandledEvent", "SetHandledExclusive", "RemoveHandledEvent"}

\* the range loop reaches a handler whose HandleEvent calls a write
\* operation of the bus: HandleEvent is entered under the worker's read lock
write_HandleEvent(w) ==
    /\ wpc[w] = "iter"
    /\ \E id \in ToVisit(w) :
          /\ id \in handlers
          /\ invoked' = [invoked EXCEPT ![wrec[w]] = @ \cup {id}]
          /\ wvisited' = [wvisited EXCEPT ![w] = @ \cup {id}]
          /\ whandler' = [whandler EXCEPT ![w] = hobj[id]]
    /\ wpc' = [wpc EXCEPT ![w] = "locking"]
    /\ UNCHANGED qvars
    /\ UNCHANGED <<confvars, tabvars, rlock, stopCount, dispvars, fut, nres,
                   wrec, wsnap, werrs, wctx, consumedBy, routed, failed, flushed,
                   flushedTo, deliveredTo, testvars>>
    /\ UNCHANGED <<fvars, xvars, hobj>>

\* the body of the write operation op(id, evt), run with the lock held
TableWrite(op, id, evt) ==
    IF op = "Register"
    THEN /\ handlers' = handlers \cup {id}
         /\ hobj' = Bind(hobj, id, FirstObj)
         /\ handledEvents' = [handledEvents EXCEPT ![evt] = @ \cup {id}]
         /\ UNCHANGED stopCount
    ELSE IF ~HasHandler(id, handlers)
    THEN UNCHANGED <<handlers, hobj, handledEvents, stopCount>>
    ELSE IF op = "UnRegister"
    THEN /\ stopCount' = [stopCount EXCEPT ![id] = @ + 1]
         /\ handlers' = handlers \ {id}
         /\ hobj' = [hobj EXCEPT ![id] = "none"]
         /\ handledEvents' = RemoveFromAll(handledEvents, id)
    ELSE /\ handledEvents' =
              IF op = "AddHandledEvent" THEN [handledEvents EXCEPT ![evt] = @ \cup {id}]
              ELSE IF op = "SetHandledExclusive" THEN Exclusive(handledEvents, id, evt)
              ELSE [handledEvents EXCEPT ![evt] = @ \ {id}]
         /\ UNCHANGED <<handlers, hobj, stopCount>>

\* inside HandleEvent: the write operation calls syncx.LockFunc(&b.mux, ...),
\* whose mux.Lock() is granted when no reader holds the lock and parks the
\* caller otherwise; once granted, the body runs, the lock is released and
\* the handler returns nil. A parked caller is woken by the RUnlock that
\* leaves no reader.
write_Lock(w) ==
    /\ wpc[w] = "locking"
    /\ IF LockFree(rlock)
       THEN /\ \E op \in WriteOps, id \in HandlerIDs, evt \in RegEvents :
                  TableWrite(op, id, evt)
            /\ wpc' = [wpc EXCEPT ![w] = "iter"]
       ELSE /\ wpc' = [wpc EXCEPT ![w] = "lockwait"]
            /\ UNCHANGED <<handlers, hobj, handledEvents, stopCount>>
    /\ UNCHANGED qvars
    /\ UNCHANGED <<confvars, nwrites, rlock, dispvars, fut, nres, loopvars,
                   werrs, wctx, ghostvars, testvars>>
    /\ UNCHANGED <<fvars, xvars, whandler>>

\* the running bus whose handlers may call a write operation
NextHandlerWrites ==
    \/ worker_pop
    \/ worker_recv
    \/ worker_disp
    \/ \E d \in Pushers : DispatchResult_call(d, FirstEvent)
    \/ \E d \in Pushers : PushRanked_send(d)
    \/ \E d \in Pushers : DispatchResult_return(d)
    \/ \E w \in Workers : start_flush(w)
    \/ \E w \in Workers : start_recv(w)
    \/ \E w \in Workers : start_handle(w)
    \/ \E w \in Workers : start_endDispatch(w)
    \/ \E w \in Workers : write_HandleEvent(w)
    \/ \E w \in Workers : write_Lock(w)

SpecHandlerWrites == InitBus /\ [][NextHandlerWrites]_vars

\* worker w is inside a handler that has called a write operation
InWrite(w) == wpc[w] \in {"locking", "lockwait"}

\* C36: a handler that calls a write operation of its bus from inside
\* HandleEvent never gets the lock: the worker that runs it holds the read
\* lock, so the call parks and stays parked, the handler does not return,
\* the worker takes no further step, the table is not written and the
\* record's future is not resolved by that worker.
C36_HandlerWriteDeadlocks ==
    /\ [](\A w \in Workers : InWrite(w) => (rlock >= 1 /\ wrec[w] # NoRec))
    /\ [][\A w \in Workers :
            /\ wpc[w] = "locking" => InWrite(w)'
            /\ wpc[w] = "lockwait" => wpc'[w] = "lockwait"
            /\ InWrite(w) =>
                  /\ UNCHANGED <<handlers, hobj, handledEvents, stopCount>>
                  /\ wrec'[w] = wrec[w]
                  /\ fut'[wrec[w]] = fut[wrec[w]]
                  /\ wvisited'[w] = wvisited[w]]_vars

\* a worker is parked in the write its handler called, the caller of
\* DispatchResult holds a future that is unresolved, and the other worker
\* cannot take the record that waits on the output
C36_Witness ==
    \E w \in Workers :
        /\ wpc[w] = "lockwait"
        /\ dpc[wrec[w]] = "returned"
        /\ fut[wrec[w]] = "unresolved"
        /\ numWorkers = MaxWorkers
        /\ dispBuf # <<>>
        /\ \A x \in Running \ {w} : wpc[x] = "select"

(***************************************************************************)
(* a handler that calls DispatchResult on its own bus and awaits the       *)
(* future from inside HandleEvent; the bus has one worker                  *)
(***************************************************************************)
\* everything outside the bus and the queue but the handler's Await
xExceptHandler == <<ovars, avars, svars, tvars, ivars, pvars, nvars, wcvars>>

\* the range loop reaches a handler whose HandleEvent calls
\* b.DispatchResult(SecondEvent): the record is created with a fresh future
\* and pushed, up to the choice of the select in Push
await_HandleEvent(w) ==
    /\ wpc[w] = "iter"
    /\ ppc[WorkerPusher(w)] = "off"
    /\ \E id \in ToVisit(w) :
          /\ id \in handlers
          /\ invoked' = [invoked EXCEPT ![wrec[w]] = @ \cup {id}]
          /\ wvisited' = [wvisited EXCEPT ![w] = @ \cup {id}]
          /\ whandler' = [whandler EXCEPT ![w] = hobj[id]]
    /\ fut' = [fut EXCEPT ![WorkerPusher(w)] = "unresolved"]
    /\ pelem' = [pelem EXCEPT ![WorkerPusher(w)] = Elem(WorkerPusher(w), 0)]
    /\ ppc' = [ppc EXCEPT ![WorkerPusher(w)] =
                  IF PushCheck(ctxDone) THEN "rejected" ELSE "send"]
    /\ wpc' = [wpc EXCEPT ![w] = "hpush"]
    /\ UNCHANGED qExceptPush
    /\ UNCHANGED <<confvars, tabvars, rlock, stopCount, dispvars, nres, wrec,
                   wsnap, werrs, wctx, consumedBy, routed, failed, flushed,
                   flushedTo, deliveredTo, testvars>>
    /\ UNCHANGED <<fvars, xExceptHandler, hvars, hobj>>

\* inside HandleEvent: DispatchResult returns its future (resolved with
\* ErrShuttingDown if Push refused the record) and the handler calls
\* future.Await, with a timeout or without
await_Await(w) ==
    /\ wpc[w] = "hpush"
    /\ ppc[WorkerPusher(w)] \in {"done", "rejected"}
    /\ fut' = [fut EXCEPT ![WorkerPusher(w)] =
                  IF ppc[WorkerPusher(w)] = "rejected" THEN Resolve(@, "shutdown") ELSE @]
    /\ nres' = [nres EXCEPT ![WorkerPusher(w)] =
                  IF ppc[WorkerPusher(w)] = "rejected" THEN @ + Resolved(fut[WorkerPusher(w)]) ELSE @]
    /\ \E timed \in BOOLEAN :
          hawait' = [hawait EXCEPT ![w] = IF timed THEN "waitT" ELSE "wait"]
    /\ wpc' = [wpc EXCEPT ![w] = "hawait"]
    /\ UNCHANGED qvars
    /\ UNCHANGED <<confvars, tabvars, rlock, stopCount, dispvars, loopvars,
                   werrs, wctx, ghostvars, testvars>>
    /\ UNCHANGED <<fvars, xExceptHandler, hval, objvars>>

\* future.await, case pair, more := <-f.ch: a value or the close is there
\* once the future has been resolved
FutureReadyMutantAlways(f) == TRUE

FutureReady(f) == f # "unresolved"

\* inside HandleEvent: Await returns the value the future was resolved with
\* and the handler returns nil
await_resolved(w) ==
    /\ wpc[w] = "hawait"
    /\ FutureReady(fut[WorkerPusher(w)])
    /\ hval' = [hval EXCEPT ![w] = fut[WorkerPusher(w)]]
    /\ hawait' = [hawait EXCEPT ![w] = "resolved"]
    /\ wpc' = [wpc EXCEPT ![w] = "iter"]
    /\ UNCHANGED qvars
    /\ UNCHANGED <<confvars, tabvars, rlock, stopCount, dispvars, fut, nres,
                   loopvars, werrs, wctx, ghostvars, testvars>>
    /\ UNCHANGED <<fvars, xExceptHandler, objvars>>

\* inside HandleEvent: Await(timeout), case <-ctx.Done(): the zero value of
\* error, nil, is returned and the handler returns nil
await_elapsed(w) ==
    /\ wpc[w] = "hawait"
    /\ hawait[w] = "waitT"
    /\ hval' = [hval EXCEPT ![w] = "nil"]
    /\ hawait' = [hawait EXCEPT ![w] = "timeout"]
    /\ wpc' = [wpc EXCEPT ![w] = "iter"]
    /\ UNCHANGED qvars
    /\ UNCHANGED <<confvars, tabvars, rlock, stopCount, dispvars, fut, nres,
                   loopvars, werrs, wctx, ghostvars, testvars>>
    /\ UNCHANGED <<fvars, xExceptHandler, objvars>>

\* the bus with one worker from Start to the end of its shutdown
NextHandlerAwaits ==
    \/ worker_pop
    \/ worker_stopping
    \/ worker_recv
    \/ worker_disp
    \/ worker_ctxDone
    \/ worker_drainRecv
    \/ worker_drainDefault
    \/ worker_nilRecv
    \/ worker_closeRecv
    \/ worker_iterPop
    \/ worker_iterSend
    \/ worker_closeDisp
    \/ worker_closeStopped
    \/ EventBus_Stop
    \/ \E d \in Pushers : DispatchResult_call(d, FirstEvent)
    \/ \E p \in AllPushers : PushRanked_send(p)
    \/ \E d \in Pushers : DispatchResult_return(d)
    \/ \E w \in Workers : start_flush(w)
    \/ \E w \in Workers : start_recv(w)
    \/ \E w \in Workers : start_handle(w)
    \/ \E w \in Workers : start_endDispatch(w)
    \/ \E w \in Workers : start_closed(w)
    \/ \E w \in Workers : start_stopHandlers(w)
    \/ \E w \in Workers : await_HandleEvent(w)
    \/ \E w \in Workers : await_Await(w)
    \/ \E w \in Workers : await_resolved(w)
    \/ \E w \in Workers : await_elapsed(w)

SpecHandlerAwaits == InitAwait /\ [][NextHandlerAwaits]_vars

\* the handler of worker w awaits the future of a record the queue accepted
AwaitsAccepted(w) == wpc[w] = "hawait" /\ ppc[WorkerPusher(w)] = "done"

\* C37: with one worker, while a handler awaits the future of a record it
\* dispatched and the queue accepted, no worker has received that record and
\* its future is unresolved; the Await returns only through its timeout,
\* with the zero value nil, so without a timeout the handler never resumes.
C37_HandlerAwaitDeadlocks ==
    /\ [](\A w \in Running :
            AwaitsAccepted(w) =>
               /\ fut[WorkerPusher(w)] = "unresolved"
               /\ consumedBy[WorkerPusher(w)] = {})
    /\ [][\A w \in Running :
            (AwaitsAccepted(w) /\ wpc'[w] # "hawait") =>
               /\ hawait[w] = "waitT"
               /\ hawait'[w] = "timeout"
               /\ hval'[w] = "nil"
               /\ fut'[WorkerPusher(w)] = "unresolved"]_vars

\* the handler awaits without a timeout the future of a record that the
\* queue accepted and the mediator has sent on the output, where it waits
C37_Witness ==
    \E w \in Running :
        /\ AwaitsAccepted(w)
        /\ hawait[w] = "wait"
        /\ numWorkers = 1
        /\ dispBuf = <<WorkerPusher(w)>>
        /\ fut[WorkerPusher(w)] = "unresolved"

\* worker w flushes its error buffer in this step
Flushes(w) == \E v \in ErrRecs(werrs[w]) : ~flushed[v] /\ flushed'[v]

\* C38: what an error handler returns during a flush is dropped: the flush
\* leaves the worker's buffer empty and pushes no record, it hands each
\* buffered error to the error handlers registered then and to nobody else,
\* and the errors of a record that went through a flush are never in a
\* buffer again, so they are delivered once per error handler.
C38_FlushSwallowsHandlerErrors ==
    /\ [](\A w \in Workers : \A v \in AllPushers :
             flushed[v] => v \notin ErrRecs(werrs[w]))
    /\ [][\A w \in Workers :
            Flushes(w) =>
               /\ werrs'[w] = <<>>
               /\ UNCHANGED <<ppc, pelem, recvBuf, recvQ, values, dispBuf, fut>>
               /\ \A v \in AllPushers :
                     deliveredTo'[v] \subseteq
                        deliveredTo[v] \cup
                           {<<werrs[w][i][2], s>> :
                               i \in {j \in 1..Len(werrs[w]) : werrs[w][j][1] = v},
                               s \in handledEvents[EventAsyncError] \cap handlers}]_vars

\* both handlers of a record failed, their two errors went to the error
\* handler in one flush, and the worker's buffer is empty again
C38_Witness ==
    \E d \in Pushers : \E w \in Running :
        /\ flushed[d]
        /\ consumedBy[d] = {w}
        /\ werrs[w] = <<>>
        /\ wpc[w] = "select"
        /\ Len(failed[d]) >= 1
        /\ flushedTo[d] # {}
        /\ deliveredTo[d] # {}

(***************************************************************************)
(* the write operations of a bus called one after another, with the error  *)
(* each call returns                                                       *)
(***************************************************************************)
\* the operations that return an error
CheckedOps == {"AddHandledEvent", "SetHandledExclusive", "RemoveHandledEvent"}

\* what op(id, evt) returns: the three checked operations return
\* fmt.Errorf("no registered handler with id '%s'", id) when b.handlers has
\* no such id and nil otherwise; Register and UnRegister return nothing
WriteResult(op, id, hs) ==
    IF op \notin CheckedOps THEN "void"
    ELSE IF ~HasHandler(id, hs) THEN "ErrNoHandler"
    ELSE "nil"

\* one call of a write operation, from mux.Lock() to its return
Write_call(op, id, evt) ==
    /\ nwrites < WriteBudget
    /\ LockFree(rlock)
    /\ TableWrite(op, id, evt)
    /\ wcall' = <<op, id, evt>>
    /\ wret' = WriteResult(op, id, handlers)
    /\ nwrites' = nwrites + 1
    /\ UNCHANGED qvars
    /\ UNCHANGED <<confvars, rlock, dispvars, fut, nres, wpc, loopvars, werrs,
                   wctx, ghostvars, testvars>>
    /\ UNCHANGED <<fvars, ovars, avars, svars, tvars, ivars, pvars, nvars, hvars,
                   whandler>>

NextWriteCalls ==
    \E op \in WriteOps, id \in HandlerIDs, evt \in RegEvents : Write_call(op, id, evt)

SpecWriteCalls == NewEventBus_created /\ [][NextWriteCalls]_vars

\* C39: a call of AddHandledEvent, SetHandledExclusive or RemoveHandledEvent
\* with a handler id that b.handlers does not hold returns the no-handler
\* error and leaves b.handlers and every handler set as they were; with a
\* registered id it returns nil.
C39_UnregisteredIdRejected ==
    [][\A op \in CheckedOps, id \in HandlerIDs, evt \in RegEvents :
         (nwrites' = nwrites + 1 /\ wcall' = <<op, id, evt>>) =>
            IF id \in handlers
            THEN wret' = "nil"
            ELSE /\ wret' = "ErrNoHandler"
                 /\ UNCHANGED <<handlers, hobj, handledEvents, stopCount>>]_vars

\* SetHandledExclusive("h2", FirstEvent) was called with h2 not registered:
\* the error came back and the event is still handled by h1
C39_Witness ==
    /\ wcall = <<"SetHandledExclusive", "h2", FirstEvent>>
    /\ wret = "ErrNoHandler"
    /\ handlers = {"h1"}
    /\ handledEvents[FirstEvent] = {"h1"}

\* a worker holds record v and its range loop has handlers still to pass
Unfinished(v) == \E w \in Running : wrec[w] = v /\ wvisited[w] # routed[v]

\* C40: a future resolved with nil belongs to a record that a worker has
\* received and released, every handler bound to its event when the worker
\* looked the event up has been invoked for it and none has failed; while
\* handlers of a record are still to be passed its future is unresolved or
\* holds the error of a handler that failed.
C40_NilAfterAllHandlers ==
    \A d \in Pushers :
        /\ fut[d] = "nil" =>
              /\ consumedBy[d] # {}
              /\ Released(d)
              /\ invoked[d] = routed[d]
              /\ failed[d] = <<>>
        /\ Unfinished(d) =>
              \/ fut[d] = "unresolved"
              \/ failed[d] # <<>> /\ fut[d] = failed[d][1]

\* a record routed to both handlers resolved with nil after both were invoked
C40_Witness ==
    \E d \in Pushers :
        /\ fut[d] = "nil"
        /\ routed[d] = {"h1", "h2"}
        /\ invoked[d] = {"h1", "h2"}
        /\ failed[d] = <<>>
        /\ dpc[d] = "returned"

====
